---- MODULE Spec2Model ----
(***************************************************************************)
(* Scoring and blending engine of the dispatch success predictor:          *)
(*   business_rules.py             rule-based probability and blending     *)
(*   calculate_historical_grades.py  the 0-100 dispatch grade              *)
(*   predict_current_dispatches.py   make_predictions                      *)
(*   predict.py, api.py              DispatchPredictor and its endpoints   *)
(*                                                                         *)
(* Spec runs the scoring functions one call at a time, RecommendationSpec  *)
(* the operations that label a dispatch with a recommendation, and         *)
(* ConcurrentSpec threads that run the scoring functions block by block    *)
(* on one shared DispatchBusinessRules instance.                           *)
(*                                                                         *)
(* Python floats are modelled as fixed-point integers:                     *)
(*   a probability p      is the integer p * PScale   (0.55 -> 5500)       *)
(*   a workload ratio r   is the integer r * RScale   (0.5  -> 50)         *)
(*   a blend weight w     is the integer w * WScale   (0.7  -> 70)         *)
(*   a grade of g points  is the integer g * GScale   (30   -> 180000)     *)
(*   distances are whole kilometres, overruns whole minutes.               *)
(* Every input the model draws is exactly representable, and every         *)
(* product and quotient the code forms on it is exact in these units,      *)
(* except exp(), which is a fixed-point power of ExpStep and ExpStep10.    *)
(***************************************************************************)
EXTENDS Integers, Sequences, FiniteSets, TLC

PScale == 100 * 100
RScale == 10 * 10
WScale == 10 * 10
GScale == 60 * 100
EScale == 100 * 100

\* float('inf') and float('nan'): two values outside every modelled range
Inf == 1000000000
NaN == 0 - Inf

\* Python's None for an optional argument
None == 0 - 1

----------------------------------------------------------------------------
\* Float comparisons: any comparison with NaN is false
FLe(a, b) == a # NaN /\ b # NaN /\ a <= b
FLt(a, b) == a # NaN /\ b # NaN /\ a < b
FGe(a, b) == FLe(b, a)
FGt(a, b) == FLt(b, a)

\* min(a, b) and max(a, b) of Python: the first argument unless the second is
\* strictly smaller (larger)
PyMin(a, b) == IF FLt(b, a) THEN b ELSE a
PyMax(a, b) == IF FGt(b, a) THEN b ELSE a

\* np.clip without its lower bound
clip_NoLowerBound(x, lo, hi) == IF x = NaN THEN NaN ELSE IF x > hi THEN hi ELSE x

\* np.clip(x, lo, hi)
clip(x, lo, hi) == IF x = NaN THEN NaN ELSE IF x < lo THEN lo ELSE IF x > hi THEN hi ELSE x

\* pd.Series.get(key, default) and dict.get(key, default)
Get(row, key, default) == IF key \in DOMAIN row THEN row[key] ELSE default

SetMin(S) == CHOOSE x \in S : \A y \in S : x <= y

----------------------------------------------------------------------------
\* DispatchBusinessRules.__init__
base_success_rate == 5500
skill_match_boost == 3700
skill_mismatch_penalty == 0 - 1000

\* the threshold dicts in insertion order (the order .items() iterates in)
workload_thresholds ==
    << [category |-> "low",        min_val |-> 0,   max_val |-> 50],
       [category |-> "medium",     min_val |-> 50,  max_val |-> 80],
       [category |-> "high",       min_val |-> 80,  max_val |-> 100],
       [category |-> "overloaded", min_val |-> 100, max_val |-> Inf] >>

\* the bonuses of the two lightest workloads exchanged
workload_adjustments_Swapped ==
    [low |-> 3000, medium |-> 3200, high |-> 0 - 1000, overloaded |-> 0 - 3000]

workload_adjustments ==
    [low |-> 3200, medium |-> 3000, high |-> 0 - 1000, overloaded |-> 0 - 3000]

distance_thresholds ==
    << [category |-> "very_close", min_val |-> 0,   max_val |-> 10],
       [category |-> "close",      min_val |-> 10,  max_val |-> 50],
       [category |-> "medium",     min_val |-> 50,  max_val |-> 100],
       [category |-> "far",        min_val |-> 100, max_val |-> 500],
       [category |-> "very_far",   min_val |-> 500, max_val |-> Inf] >>

\* the two penalties for long distances exchanged
distance_adjustments_Swapped ==
    [very_close |-> 3300, close |-> 500, medium |-> 0, far |-> 0 - 3000,
     very_far |-> 0 - 1200]

distance_adjustments ==
    [very_close |-> 3300, close |-> 500, medium |-> 0, far |-> 0 - 1200,
     very_far |-> 0 - 3000]

priority_adjustments ==
    [Low |-> 200, Normal |-> 0, High |-> 0 - 200, Critical |-> 0 - 500]

ticket_type_adjustments ==
    [Order |-> 200, Trouble |-> 0 - 300]

\* the loop shared by get_workload_category and get_distance_category:
\* the first interval with min_val <= value < max_val, else 'medium'
\* the interval test open below and closed above: min_val < value <= max_val
InInterval_UpperInclusive(value, t) == FLt(t.min_val, value) /\ FLe(value, t.max_val)

InInterval(value, t) == FLe(t.min_val, value) /\ FLt(value, t.max_val)

\* a value in no interval given the last bucket of the table
FirstCategory_DefaultLast(thresholds, value) ==
    LET hits == {i \in DOMAIN thresholds : InInterval(value, thresholds[i])}
    IN  IF hits = {} THEN thresholds[Len(thresholds)].category
        ELSE thresholds[SetMin(hits)].category

\* the first interval of the table that holds the value; 'medium' if none does
FirstCategory(thresholds, value) ==
    LET hits == {i \in DOMAIN thresholds : InInterval(value, thresholds[i])}
    IN  IF hits = {} THEN "medium" ELSE thresholds[SetMin(hits)].category

get_workload_category(workload_ratio) ==
    FirstCategory(workload_thresholds, workload_ratio)

get_distance_category(distance) ==
    FirstCategory(distance_thresholds, distance)

\* row.get('ticket_type') without its default 'Order'
calculate_rule_based_probability_NoTicketDefault(row) ==
    LET prob0 == base_success_rate
        prob1 == prob0 + (IF Get(row, "skill_match", 0) = 1
                          THEN skill_match_boost
                          ELSE skill_mismatch_penalty)
        workload_ratio == Get(row, "workload_ratio", 50)
        workload_cat == get_workload_category(workload_ratio)
        prob2 == prob1 + workload_adjustments[workload_cat]
        distance == Get(row, "distance", 50)
        distance_cat == get_distance_category(distance)
        prob3 == prob2 + distance_adjustments[distance_cat]
        priority == Get(row, "priority", "Normal")
        prob4 == prob3 + Get(priority_adjustments, priority, 0)
        ticket_type == Get(row, "ticket_type", "None")
        prob5 == prob4 + Get(ticket_type_adjustments, ticket_type, 0)
    IN  clip(prob5, 0, PScale)

calculate_rule_based_probability(row) ==
    LET prob0 == base_success_rate
        prob1 == prob0 + (IF Get(row, "skill_match", 0) = 1
                          THEN skill_match_boost
                          ELSE skill_mismatch_penalty)
        workload_ratio == Get(row, "workload_ratio", 50)
        workload_cat == get_workload_category(workload_ratio)
        prob2 == prob1 + workload_adjustments[workload_cat]
        distance == Get(row, "distance", 50)
        distance_cat == get_distance_category(distance)
        prob3 == prob2 + distance_adjustments[distance_cat]
        priority == Get(row, "priority", "Normal")
        prob4 == prob3 + Get(priority_adjustments, priority, 0)
        ticket_type == Get(row, "ticket_type", "Order")
        prob5 == prob4 + Get(ticket_type_adjustments, ticket_type, 0)
    IN  clip(prob5, 0, PScale)

\* blend_probabilities(ml_prob, rule_prob, rule_weight=0.7)
DefaultRuleWeight == 70

\* the weight given to the wrong estimate
blend_probabilities_Swapped(ml_prob, rule_prob, rule_weight) ==
    (rule_weight * ml_prob + (WScale - rule_weight) * rule_prob) \div WScale

\* the model estimate added whole instead of with weight 1 - rule_weight
blend_probabilities_NoComplement(ml_prob, rule_prob, rule_weight) ==
    (rule_weight * rule_prob + WScale * ml_prob) \div WScale

blend_probabilities(ml_prob, rule_prob, rule_weight) ==
    (rule_weight * rule_prob + (WScale - rule_weight) * ml_prob) \div WScale

----------------------------------------------------------------------------
\* calculate_dispatch_grade (calculate_historical_grades.py)

Abs(x) == IF x < 0 THEN 0 - x ELSE x

\* exp(-k) and exp(-10 * k) for k = 0.02, in units of 1/EScale
\* (0.980199 and 0.818731 rounded)
ExpStep == 9802
ExpStep10 == 8187

\* x * factor^n in fixed point, each product rounded down
RECURSIVE Decay(_, _, _)
Decay(x, factor, n) ==
    IF n = 0 THEN x ELSE Decay((x * factor) \div EScale, factor, n - 1)

\* amplitude * np.exp(-k * distance) for a whole distance >= 0, as
\* amplitude * exp(-10 * k)^(distance \div 10) * exp(-k)^(distance % 10)
ScaledExp(amplitude, distance) ==
    Decay(Decay(amplitude, ExpStep10, distance \div 10), ExpStep, distance % 10)

max_distance_for_zero == 250

\* the distance threshold tested with > instead of >=
DistanceScore_StrictThreshold(distance) ==
    IF distance > max_distance_for_zero
    THEN [score |-> 0, branch |-> "threshold"]
    ELSE [score |-> PyMax(0, PyMin(30 * GScale, ScaledExp(30 * GScale, distance))),
          branch |-> "exp"]

\* the exponent without the distance: 30 * np.exp(-k)
DistanceScore_NoDistance(distance) ==
    IF distance >= max_distance_for_zero
    THEN [score |-> 0, branch |-> "threshold"]
    ELSE [score |-> PyMax(0, PyMin(30 * GScale, ScaledExp(30 * GScale, 1))),
          branch |-> "exp"]

\* DISTANCE SCORE: the score and the branch that produced it
DistanceScore(distance) ==
    IF distance >= max_distance_for_zero
    THEN [score |-> 0, branch |-> "threshold"]
    ELSE [score |-> PyMax(0, PyMin(30 * GScale, ScaledExp(30 * GScale, distance))),
          branch |-> "exp"]

\* the late penalty without its floor at 0
DurationScore_NoFloor(overrun) ==
    IF overrun <= 0
    THEN [score |-> 30 * GScale
                    + PyMin(6 * GScale, (Abs(overrun) * 6 * GScale) \div 30),
          branch |-> "early"]
    ELSE [score |-> 30 * GScale - (overrun * 30 * GScale) \div 90,
          branch |-> "late"]

\* the late penalty taken from the 36 points of the full bonus
DurationScore_LateFromBonus(overrun) ==
    IF overrun <= 0
    THEN [score |-> 30 * GScale
                    + PyMin(6 * GScale, (Abs(overrun) * 6 * GScale) \div 30),
          branch |-> "early"]
    ELSE [score |-> PyMax(0, 36 * GScale - (overrun * 30 * GScale) \div 90),
          branch |-> "late"]

\* DURATION SCORE: bonus = min(6, abs(overrun) / 30 * 6) when overrun <= 0,
\* else the penalty overrun * penalty_rate with penalty_rate = 30 / 90
DurationScore(overrun) ==
    IF overrun <= 0
    THEN [score |-> 30 * GScale
                    + PyMin(6 * GScale, (Abs(overrun) * 6 * GScale) \div 30),
          branch |-> "early"]
    ELSE [score |-> PyMax(0, 30 * GScale - (overrun * 30 * GScale) \div 90),
          branch |-> "late"]

\* the productive signal weighted like the first-time-fix signal
ProductiveScore_FtfWeight(signal) == (signal * 15 * GScale) \div PScale

\* PRODUCTIVE DISPATCH (25 pts) and FIRST TIME FIX (15 pts)
ProductiveScore(signal) == (signal * 25 * GScale) \div PScale

FtfScore(signal) == (signal * 15 * GScale) \div PScale

\* the total returned without the cap
CapGrade_NoCap(grade) == grade

\* Cap at 100
CapGrade(grade) == PyMin(100 * GScale, grade)

\* the first-time-fix component taken from first_time_fix in both modes
GradeLocals_FtfObserved(distance, overrun, productive_dispatch, first_time_fix, use_probabilities, success_prob) ==
    LET grade0 == 0
        distance_score == DistanceScore(distance).score
        grade1 == grade0 + distance_score
        duration_score == DurationScore(overrun).score
        grade2 == grade1 + duration_score
        productive_score ==
            IF use_probabilities /\ success_prob # None
            THEN ProductiveScore(success_prob)
            ELSE ProductiveScore(productive_dispatch)
        grade3 == grade2 + productive_score
        ftf_score == FtfScore(first_time_fix)
        grade4 == grade3 + ftf_score
    IN  [distance_score |-> distance_score,
         distance_branch |-> DistanceScore(distance).branch,
         duration_score |-> duration_score,
         duration_branch |-> DurationScore(overrun).branch,
         productive_score |-> productive_score,
         ftf_score |-> ftf_score,
         grade |-> CapGrade(grade4)]

\* the locals of one call of calculate_dispatch_grade when it returns
GradeLocals(distance, overrun, productive_dispatch, first_time_fix, use_probabilities, success_prob) ==
    LET grade0 == 0
        distance_score == DistanceScore(distance).score
        grade1 == grade0 + distance_score
        duration_score == DurationScore(overrun).score
        grade2 == grade1 + duration_score
        productive_score ==
            IF use_probabilities /\ success_prob # None
            THEN ProductiveScore(success_prob)
            ELSE ProductiveScore(productive_dispatch)
        grade3 == grade2 + productive_score
        ftf_score ==
            IF use_probabilities /\ success_prob # None
            THEN FtfScore(success_prob)
            ELSE FtfScore(first_time_fix)
        grade4 == grade3 + ftf_score
    IN  [distance_score |-> distance_score,
         distance_branch |-> DistanceScore(distance).branch,
         duration_score |-> duration_score,
         duration_branch |-> DurationScore(overrun).branch,
         productive_score |-> productive_score,
         ftf_score |-> ftf_score,
         grade |-> CapGrade(grade4)]

calculate_dispatch_grade(distance, overrun, productive_dispatch, first_time_fix, use_probabilities, success_prob) ==
    GradeLocals(distance, overrun, productive_dispatch, first_time_fix,
                use_probabilities, success_prob).grade

----------------------------------------------------------------------------
\* make_predictions (predict_current_dispatches.py)

\* DispatchBusinessRules.calculate_probabilities: df.apply(..., axis=1)
calculate_probabilities(df) ==
    [i \in DOMAIN df |-> calculate_rule_based_probability(df[i])]

\* the tiers tested with > instead of >=
make_predictions_get_recommendation_StrictTiers(row) ==
    LET prob == row.success_probability
        duration_diff == row.duration_difference
        rec == IF prob > 8000 THEN "PROCEED"
               ELSE IF prob > 6000 THEN "PROCEED WITH CAUTION"
               ELSE IF prob > 4000 THEN "REVIEW"
               ELSE "DO NOT PROCEED"
        warn == duration_diff * 10 > row.expected_duration * 3
    IN  [tier |-> rec, warning |-> warn,
         minutes |-> IF warn THEN duration_diff ELSE 0]

\* the label get_recommendation builds: the tier, and the warning with its
\* minutes when one is appended
make_predictions_get_recommendation(row) ==
    LET prob == row.success_probability
        duration_diff == row.duration_difference
        rec == IF prob >= 8000 THEN "PROCEED"
               ELSE IF prob >= 6000 THEN "PROCEED WITH CAUTION"
               ELSE IF prob >= 4000 THEN "REVIEW"
               ELSE "DO NOT PROCEED"
        warn == duration_diff * 10 > row.expected_duration * 3
    IN  [tier |-> rec, warning |-> warn,
         minutes |-> IF warn THEN duration_diff ELSE 0]

make_predictions_get_confidence(row) ==
    LET prob == row.success_probability
    IN  IF prob >= 8000 THEN "High"
        ELSE IF prob >= 6000 THEN "Medium"
        ELSE IF prob >= 4000 THEN "Low"
        ELSE "Very Low"

\* The three pickled files make_predictions opens, in the order it opens them
ModelFiles == <<"preprocessor", "success_model", "duration_model">>

\* each ML probability blended with the rule probability of the row at the
\* mirrored position
make_predictions_CrossPaired(df, rule_weight, use_hybrid, ml_success_predictions, ml_success_probabilities, duration_predictions) ==
    LET rule_probabilities ==
            IF use_hybrid THEN calculate_probabilities(df) ELSE <<>>
        blended_probabilities ==
            [i \in DOMAIN df |->
                blend_probabilities(ml_success_probabilities[i],
                                    rule_probabilities[Len(df) + 1 - i],
                                    rule_weight)]
        success_probabilities ==
            IF use_hybrid THEN blended_probabilities ELSE ml_success_probabilities
        success_predictions ==
            IF use_hybrid
            THEN [i \in DOMAIN df |->
                    IF blended_probabilities[i] >= PScale \div 2 THEN 1 ELSE 0]
            ELSE ml_success_predictions
        results0 ==
            [i \in DOMAIN df |->
                [expected_duration |-> df[i].expected_duration,
                 success_prediction |-> success_predictions[i],
                 success_probability |-> success_probabilities[i],
                 failure_probability |-> PScale - success_probabilities[i],
                 estimated_duration |-> duration_predictions[i],
                 duration_difference |->
                     duration_predictions[i] - df[i].expected_duration]]
    IN  [rule_probabilities |-> rule_probabilities,
         results |->
            [i \in DOMAIN df |->
                [success_prediction |-> results0[i].success_prediction,
                 success_probability |-> results0[i].success_probability,
                 failure_probability |-> results0[i].failure_probability,
                 estimated_duration |-> results0[i].estimated_duration,
                 duration_difference |-> results0[i].duration_difference,
                 recommendation |-> make_predictions_get_recommendation(results0[i]),
                 confidence |-> make_predictions_get_confidence(results0[i])]]]

\* make_predictions once the files are loaded. The fitted models are outside
\* the engine: ml_success_predictions, ml_success_probabilities and
\* duration_predictions are what they answer for the rows of df.
make_predictions(df, rule_weight, use_hybrid, ml_success_predictions, ml_success_probabilities, duration_predictions) ==
    LET rule_probabilities ==
            IF use_hybrid THEN calculate_probabilities(df) ELSE <<>>
        blended_probabilities ==
            [i \in DOMAIN df |->
                blend_probabilities(ml_success_probabilities[i],
                                    rule_probabilities[i], rule_weight)]
        success_probabilities ==
            IF use_hybrid THEN blended_probabilities ELSE ml_success_probabilities
        success_predictions ==
            IF use_hybrid
            THEN [i \in DOMAIN df |->
                    IF blended_probabilities[i] >= PScale \div 2 THEN 1 ELSE 0]
            ELSE ml_success_predictions
        results0 ==
            [i \in DOMAIN df |->
                [expected_duration |-> df[i].expected_duration,
                 success_prediction |-> success_predictions[i],
                 success_probability |-> success_probabilities[i],
                 failure_probability |-> PScale - success_probabilities[i],
                 estimated_duration |-> duration_predictions[i],
                 duration_difference |->
                     duration_predictions[i] - df[i].expected_duration]]
    IN  [rule_probabilities |-> rule_probabilities,
         results |->
            [i \in DOMAIN df |->
                [success_prediction |-> results0[i].success_prediction,
                 success_probability |-> results0[i].success_probability,
                 failure_probability |-> results0[i].failure_probability,
                 estimated_duration |-> results0[i].estimated_duration,
                 duration_difference |-> results0[i].duration_difference,
                 recommendation |-> make_predictions_get_recommendation(results0[i]),
                 confidence |-> make_predictions_get_confidence(results0[i])]]]

----------------------------------------------------------------------------
\* DispatchBusinessRules.get_explanation

\* f"{x:.0%}" and f"{x:+.0%}": the whole percent nearest to x
FormatPct(x) ==
    IF x >= 0 THEN (x + PScale \div 200) \div (PScale \div 100)
    ELSE 0 - ((PScale \div 200 - x) \div (PScale \div 100))

\* one entry of factors: what it names, the bucket or value it shows, and the
\* percentage it prints
Factor(name, detail, x) == [factor |-> name, detail |-> detail, pct |-> FormatPct(x)]

\* the priority entry appended only for a positive adjustment
get_explanation_PositiveOnly(row) ==
    LET skill == IF Get(row, "skill_match", 0) = 1
                 THEN Factor("Skill match", "", skill_match_boost)
                 ELSE Factor("Skill mismatch", "", skill_mismatch_penalty)
        workload_cat == get_workload_category(Get(row, "workload_ratio", 50))
        distance_cat == get_distance_category(Get(row, "distance", 50))
        priority == Get(row, "priority", "Normal")
        priority_adj == Get(priority_adjustments, priority, 0)
        ticket_type == Get(row, "ticket_type", "Order")
        ticket_adj == Get(ticket_type_adjustments, ticket_type, 0)
        final_prob == calculate_rule_based_probability(row)
    IN  <<Factor("Base rate", "", base_success_rate), skill,
          Factor("Workload", workload_cat, workload_adjustments[workload_cat]),
          Factor("Distance", distance_cat, distance_adjustments[distance_cat])>>
        \o (IF priority_adj > 0
            THEN <<Factor("Priority", priority, priority_adj)>> ELSE <<>>)
        \o (IF ticket_adj # 0
            THEN <<Factor("Type", ticket_type, ticket_adj)>> ELSE <<>>)
        \o <<Factor("Final", "", final_prob)>>

\* factors, the list get_explanation joins with " | "
get_explanation(row) ==
    LET skill == IF Get(row, "skill_match", 0) = 1
                 THEN Factor("Skill match", "", skill_match_boost)
                 ELSE Factor("Skill mismatch", "", skill_mismatch_penalty)
        workload_cat == get_workload_category(Get(row, "workload_ratio", 50))
        distance_cat == get_distance_category(Get(row, "distance", 50))
        priority == Get(row, "priority", "Normal")
        priority_adj == Get(priority_adjustments, priority, 0)
        ticket_type == Get(row, "ticket_type", "Order")
        ticket_adj == Get(ticket_type_adjustments, ticket_type, 0)
        final_prob == calculate_rule_based_probability(row)
    IN  <<Factor("Base rate", "", base_success_rate), skill,
          Factor("Workload", workload_cat, workload_adjustments[workload_cat]),
          Factor("Distance", distance_cat, distance_adjustments[distance_cat])>>
        \o (IF priority_adj # 0
            THEN <<Factor("Priority", priority, priority_adj)>> ELSE <<>>)
        \o (IF ticket_adj # 0
            THEN <<Factor("Type", ticket_type, ticket_adj)>> ELSE <<>>)
        \o <<Factor("Final", "", final_prob)>>

----------------------------------------------------------------------------
\* DispatchPredictor (predict.py) and the endpoints of api.py

\* the report names the files in the order load_models opens them
PredictorFiles == <<"success_model", "duration_model", "preprocessor">>

\* DispatchPredictor.predict_single once the models answered: answer is what
\* they predict for the request (pred, prob of class 1, estimated minutes)
predict_single(answer, expected_duration) ==
    [success_prediction |-> answer.pred = 1,
     success_probability |-> answer.prob,
     failure_probability |-> PScale - answer.prob,
     estimated_duration |-> answer.estimated,
     expected_duration |-> expected_duration,
     duration_difference |-> answer.estimated - expected_duration]

\* the elements of a list
Range(s) == {s[i] : i \in DOMAIN s}

\* the columns predict_batch requires, in the order it tests them
required_cols ==
    <<"ticket_type", "order_type", "priority", "required_skill",
      "technician_skill", "distance", "expected_duration">>

\* config.FEATURE_COLUMNS
FEATURE_COLUMNS ==
    <<"ticket_type", "order_type", "priority", "required_skill",
      "technician_skill", "distance", "expected_duration", "skill_match",
      "workload_ratio">>

\* [col for col in cols if col not in columns]
NotIn(cols, columns) ==
    LET Absent(c) == c \notin columns
    IN  SelectSeq(cols, Absent)

\* DispatchPredictor.predict_batch(dispatches). A frame is its set of columns
\* and, for each row, the values of the three columns the function reads
\* (None in a column the frame does not have). answers is what the models
\* answer row by row, fails says that the preprocessor or a model raises.
\* The result gives what the call raises, the columns the exception names,
\* the caller's frame after the call, whether prepare_features was reached,
\* and the rows returned.
predict_batch(dispatches, answers, fails) ==
    LET missing_cols == NotIn(required_cols, dispatches.columns)
        derived ==
            [columns |-> dispatches.columns \cup {"skill_match"},
             rows |-> [i \in DOMAIN dispatches.rows |->
                          [dispatches.rows[i] EXCEPT !.skill_match =
                              IF dispatches.rows[i].required_skill
                                    = dispatches.rows[i].technician_skill
                              THEN 1 ELSE 0]]]
        frame == IF "skill_match" \notin dispatches.columns
                 THEN derived ELSE dispatches
        no_feature == NotIn(FEATURE_COLUMNS, frame.columns)
    IN  IF missing_cols # <<>>
        THEN [raised |-> "ValueError", names |-> missing_cols,
              dispatches |-> dispatches, preprocessed |-> FALSE, result |-> <<>>]
        ELSE IF no_feature # <<>>
        THEN [raised |-> "KeyError", names |-> no_feature,
              dispatches |-> frame, preprocessed |-> FALSE, result |-> <<>>]
        ELSE IF fails
        THEN [raised |-> "Exception", names |-> <<>>,
              dispatches |-> frame, preprocessed |-> TRUE, result |-> <<>>]
        ELSE [raised |-> "none", names |-> <<>>,
              dispatches |-> frame, preprocessed |-> TRUE,
              result |-> [i \in DOMAIN frame.rows |->
                            predict_single(answers[i], answers[i].expected)]]

\* the warning given from 30% on instead of above 30%
predict_dispatch_recommendation_WarnAtThreshold(result) ==
    LET prob == result.success_probability
        duration_diff == result.duration_difference
        recommendation ==
            IF prob >= 8000 THEN "PROCEED - High probability of success"
            ELSE IF prob >= 6000
                 THEN "PROCEED WITH CAUTION - Moderate probability of success"
            ELSE IF prob >= 4000 THEN "REVIEW - Low probability of success"
            ELSE "DO NOT PROCEED - Very low probability of success"
        warn == duration_diff * 10 >= result.expected_duration * 3
    IN  [tier |-> recommendation, warning |-> warn,
         minutes |-> IF warn THEN duration_diff ELSE 0]

\* the label predict_dispatch builds from result
predict_dispatch_recommendation(result) ==
    LET prob == result.success_probability
        duration_diff == result.duration_difference
        recommendation ==
            IF prob >= 8000 THEN "PROCEED - High probability of success"
            ELSE IF prob >= 6000
                 THEN "PROCEED WITH CAUTION - Moderate probability of success"
            ELSE IF prob >= 4000 THEN "REVIEW - Low probability of success"
            ELSE "DO NOT PROCEED - Very low probability of success"
        warn == duration_diff * 10 > result.expected_duration * 3
    IN  [tier |-> recommendation, warning |-> warn,
         minutes |-> IF warn THEN duration_diff ELSE 0]

\* get_recommendation(row) of predict_dispatches_batch
predict_dispatches_batch_get_recommendation(row) ==
    LET prob == row.success_probability
        duration_diff == row.duration_difference
        rec == IF prob >= 8000 THEN "PROCEED - High probability of success"
               ELSE IF prob >= 6000
                    THEN "PROCEED WITH CAUTION - Moderate probability of success"
               ELSE IF prob >= 4000 THEN "REVIEW - Low probability of success"
               ELSE "DO NOT PROCEED - Very low probability of success"
        warn == duration_diff * 10 > row.expected_duration * 3
    IN  [tier |-> rec, warning |-> warn,
         minutes |-> IF warn THEN duration_diff ELSE 0]

\* the REVIEW tier starting at 0.5 instead of 0.4
DispatchPredictor_get_recommendation_ReviewFromHalf(result) ==
    LET prob == result.success_probability
        exp_duration == result.expected_duration
        duration_diff == result.duration_difference
        confidence == IF prob >= 8000 THEN "High"
                      ELSE IF prob >= 6000 THEN "Medium"
                      ELSE IF prob >= 5000 THEN "Low"
                      ELSE "Very Low"
        recommendation ==
            IF prob >= 8000 THEN "PROCEED - High probability of success"
            ELSE IF prob >= 6000
                 THEN "PROCEED WITH CAUTION - Moderate probability of success"
            ELSE IF prob >= 5000
                 THEN "REVIEW - Low probability of success, consider reassignment"
            ELSE "DO NOT PROCEED - Very low probability of success, reassign dispatch"
        duration_warning ==
            IF duration_diff * 10 > exp_duration * 3 THEN "WARNING"
            ELSE IF duration_diff < 0 THEN "shorter"
            ELSE ""
    IN  [confidence |-> confidence, tier |-> recommendation,
         duration_warning |-> duration_warning,
         minutes |-> IF duration_warning = "" THEN 0 ELSE Abs(duration_diff)]

\* the parts of the report DispatchPredictor.get_recommendation returns that
\* depend on the prediction: duration_warning is a line of its own, not a
\* suffix of the recommendation
DispatchPredictor_get_recommendation(result) ==
    LET prob == result.success_probability
        exp_duration == result.expected_duration
        duration_diff == result.duration_difference
        confidence == IF prob >= 8000 THEN "High"
                      ELSE IF prob >= 6000 THEN "Medium"
                      ELSE IF prob >= 4000 THEN "Low"
                      ELSE "Very Low"
        recommendation ==
            IF prob >= 8000 THEN "PROCEED - High probability of success"
            ELSE IF prob >= 6000
                 THEN "PROCEED WITH CAUTION - Moderate probability of success"
            ELSE IF prob >= 4000
                 THEN "REVIEW - Low probability of success, consider reassignment"
            ELSE "DO NOT PROCEED - Very low probability of success, reassign dispatch"
        duration_warning ==
            IF duration_diff * 10 > exp_duration * 3 THEN "WARNING"
            ELSE IF duration_diff < 0 THEN "shorter"
            ELSE ""
    IN  [confidence |-> confidence, tier |-> recommendation,
         duration_warning |-> duration_warning,
         minutes |-> IF duration_warning = "" THEN 0 ELSE Abs(duration_diff)]

----------------------------------------------------------------------------
\* Threads that invoke the scoring functions on one DispatchBusinessRules

\* the instance attributes __init__ sets
ScoringRules ==
    [base_success_rate |-> base_success_rate,
     skill_match_boost |-> skill_match_boost,
     skill_mismatch_penalty |-> skill_mismatch_penalty,
     workload_thresholds |-> workload_thresholds,
     workload_adjustments |-> workload_adjustments,
     distance_thresholds |-> distance_thresholds,
     distance_adjustments |-> distance_adjustments,
     priority_adjustments |-> priority_adjustments,
     ticket_type_adjustments |-> ticket_type_adjustments]

\* the first block of statements of each function
FirstPc(op) ==
    CASE op = "calculate_rule_based_probability" -> "base"
      [] op = "get_explanation" -> "x_base"
      [] op \in {"get_workload_category", "get_distance_category"} -> "lookup"
      [] op = "blend_probabilities" -> "blend"
      [] op = "calculate_dispatch_grade" -> "grade"

\* What one block of statements does to the locals of the thread that runs
\* it: f is the frame (op, input, pc and the locals prob, value, label,
\* trace), r the instance it reads through self.
ExecFrame(r, f) ==
    LET row == f.input.row
        nums == f.input.nums
        workload_cat ==
            FirstCategory(r.workload_thresholds, Get(row, "workload_ratio", 50))
        distance_cat ==
            FirstCategory(r.distance_thresholds, Get(row, "distance", 50))
        priority == Get(row, "priority", "Normal")
        priority_adj == Get(r.priority_adjustments, priority, 0)
        ticket_type == Get(row, "ticket_type", "Order")
        ticket_adj == Get(r.ticket_type_adjustments, ticket_type, 0)
        skill_adj == IF Get(row, "skill_match", 0) = 1
                     THEN r.skill_match_boost ELSE r.skill_mismatch_penalty
    IN  CASE f.pc = "base" ->
                [f EXCEPT !.prob = r.base_success_rate, !.pc = "skill"]
          [] f.pc = "skill" ->
                [f EXCEPT !.prob = @ + skill_adj, !.pc = "workload"]
          [] f.pc = "workload" ->
                [f EXCEPT !.prob = @ + r.workload_adjustments[workload_cat],
                          !.pc = "distance"]
          [] f.pc = "distance" ->
                [f EXCEPT !.prob = @ + r.distance_adjustments[distance_cat],
                          !.pc = "priority"]
          [] f.pc = "priority" ->
                [f EXCEPT !.prob = @ + priority_adj, !.pc = "ticket_type"]
          [] f.pc = "ticket_type" ->
                [f EXCEPT !.prob = @ + ticket_adj, !.pc = "clip"]
          [] f.pc = "clip" ->
                IF f.op = "get_explanation"
                THEN [f EXCEPT !.trace = Append(@, Factor("Final", "",
                                                          clip(f.prob, 0, PScale))),
                               !.pc = "done"]
                ELSE [f EXCEPT !.value = clip(f.prob, 0, PScale), !.pc = "done"]
          [] f.pc = "x_base" ->
                [f EXCEPT !.trace = <<Factor("Base rate", "", r.base_success_rate)>>,
                          !.pc = "x_skill"]
          [] f.pc = "x_skill" ->
                [f EXCEPT !.trace =
                              Append(@, IF Get(row, "skill_match", 0) = 1
                                        THEN Factor("Skill match", "", skill_adj)
                                        ELSE Factor("Skill mismatch", "", skill_adj)),
                          !.pc = "x_workload"]
          [] f.pc = "x_workload" ->
                [f EXCEPT !.trace =
                              Append(@, Factor("Workload", workload_cat,
                                               r.workload_adjustments[workload_cat])),
                          !.pc = "x_distance"]
          [] f.pc = "x_distance" ->
                [f EXCEPT !.trace =
                              Append(@, Factor("Distance", distance_cat,
                                               r.distance_adjustments[distance_cat])),
                          !.pc = "x_priority"]
          [] f.pc = "x_priority" ->
                [f EXCEPT !.trace =
                              IF priority_adj # 0
                              THEN Append(@, Factor("Priority", priority, priority_adj))
                              ELSE @,
                          !.pc = "x_ticket_type"]
          [] f.pc = "x_ticket_type" ->
                [f EXCEPT !.trace =
                              IF ticket_adj # 0
                              THEN Append(@, Factor("Type", ticket_type, ticket_adj))
                              ELSE @,
                          !.pc = "base"]
          [] f.pc = "lookup" ->
                [f EXCEPT !.label =
                              FirstCategory(IF f.op = "get_workload_category"
                                            THEN r.workload_thresholds
                                            ELSE r.distance_thresholds, nums[1]),
                          !.pc = "done"]
          [] f.pc = "blend" ->
                [f EXCEPT !.value = blend_probabilities(nums[1], nums[2], nums[3]),
                          !.pc = "done"]
          [] f.pc = "grade" ->
                [f EXCEPT !.value =
                              calculate_dispatch_grade(nums[1], nums[2], nums[3],
                                                       nums[4], nums[5] = 1, nums[6]),
                          !.pc = "done"]

\* the clipped result kept on the instance, in place of the base rate
Exec_ResultKeptOnInstance(r, f) ==
    [rules |-> IF f.pc = "clip"
               THEN [r EXCEPT !.base_success_rate = clip(f.prob, 0, PScale)]
               ELSE r,
     frame |-> ExecFrame(r, f)]

\* One block of statements run by one thread: the instance afterwards and the
\* frame afterwards. No statement of the scoring functions assigns to self.
Exec(r, f) == [rules |-> r, frame |-> ExecFrame(r, f)]

----------------------------------------------------------------------------
\* DispatchSuccessPredictor (model.py)
\* An estimator is "unfitted" as the constructor creates it and "fitted" once
\* fit has returned or a fitted pickle was loaded into its place; a file of
\* the disk is "absent" or holds the pickle of such an estimator.

\* the object before DispatchSuccessPredictor() has run
NoPredictor ==
    [model_type |-> "none", success_model |-> "none", duration_model |-> "none",
     is_trained |-> FALSE]

ModelTypes == {"random_forest", "gradient_boosting", "logistic_regression"}

\* __init__(model_type): the object it leaves, and what it raises
DispatchSuccessPredictor(model_type) ==
    IF model_type \in ModelTypes
    THEN [self |-> [model_type |-> model_type, success_model |-> "unfitted",
                    duration_model |-> "unfitted", is_trained |-> FALSE],
          raised |-> "none"]
    ELSE [self |-> NoPredictor, raised |-> "ValueError"]

\* train(X_train, y_success_train, y_duration_train): has_duration says that
\* y_duration_train is not None, fit_fails names the fit that raises ("none",
\* "success" or "duration")
train(self, has_duration, fit_fails) ==
    IF fit_fails = "success"
    THEN [self |-> self, raised |-> "Exception"]
    ELSE LET fitted1 == [self EXCEPT !.success_model = "fitted"]
         IN  IF has_duration /\ fit_fails = "duration"
             THEN [self |-> fitted1, raised |-> "Exception"]
             ELSE [self |-> [fitted1 EXCEPT
                                !.duration_model =
                                    IF has_duration THEN "fitted" ELSE @,
                                !.is_trained = TRUE],
                   raised |-> "none"]

\* predict_duration without its is_trained test
guarded_call_DurationUnguarded(self, method) ==
    LET touched ==
            CASE method = "predict" -> {"success_model", "duration_model"}
              [] method \in {"predict_proba", "predict_success"} -> {"success_model"}
              [] method = "predict_duration" -> {"duration_model"}
              [] method = "save" -> {"success_model", "duration_model"}
    IN  IF ~self.is_trained /\ method # "predict_duration"
        THEN [raised |-> "ValueError", touched |-> {}]
        ELSE IF method # "save" /\ \E m \in touched : self[m] # "fitted"
        THEN [raised |-> "NotFittedError", touched |-> touched]
        ELSE [raised |-> "none", touched |-> touched]

\* predict, predict_proba, predict_success, predict_duration and save: what
\* the call raises and the models it uses. An estimator that was never fitted
\* raises NotFittedError from its own predict.
guarded_call(self, method) ==
    LET touched ==
            CASE method = "predict" -> {"success_model", "duration_model"}
              [] method \in {"predict_proba", "predict_success"} -> {"success_model"}
              [] method = "predict_duration" -> {"duration_model"}
              [] method = "save" -> {"success_model", "duration_model"}
    IN  IF ~self.is_trained
        THEN [raised |-> "ValueError", touched |-> {}]
        ELSE IF method # "save" /\ \E m \in touched : self[m] # "fitted"
        THEN [raised |-> "NotFittedError", touched |-> touched]
        ELSE [raised |-> "none", touched |-> touched]

\* the two files after save() of a trained predictor
save(self, files) ==
    IF guarded_call(self, "save").raised # "none" THEN files
    ELSE [success_model |-> self.success_model,
          duration_model |-> self.duration_model]

\* load(): the object it leaves, and what it raises
load(self, files) ==
    IF files.success_model = "absent"
    THEN [self |-> self, raised |-> "FileNotFoundError"]
    ELSE [self |-> [self EXCEPT
                       !.success_model = files.success_model,
                       !.duration_model =
                           IF files.duration_model # "absent"
                           THEN files.duration_model ELSE @,
                       !.is_trained = TRUE],
          raised |-> "none"]

----------------------------------------------------------------------------
VARIABLES
    call,    \* "idle", or the function that has just finished
    args,    \* its arguments
    ret,     \* what it returned, a record with one field for each kind of
             \* result (value, category, trace, results, response,
             \* predictions, report); <<>> when it raised
    locals,  \* the local variables it held when it finished
    raised,  \* the exception it raised, "none" when it returned
    predictor,  \* the DispatchPredictor of the process: "None" or "loaded"
    rules,   \* the fields of the shared DispatchBusinessRules instance
    threads, \* the frame of each thread that invokes a scoring function
    trainer, \* the fields of the DispatchSuccessPredictor of the process
    files,   \* the two model files on the disk
    loader   \* the DataLoader of the running load function, its position
             \* and the connections the database has seen

vars == <<call, args, ret, locals, raised, predictor, rules, threads, trainer, files, loader>>

\* Inputs
MaxRows == 2
NumThreads == 2
Threads == 1..NumThreads

\* the rows the threads score
ThreadRows ==
    { [skill_match |-> 1, workload_ratio |-> 40, distance |-> 5,
       priority |-> "Normal", ticket_type |-> "Order"],
      [skill_match |-> 0, workload_ratio |-> 120, distance |-> 150,
       priority |-> "Critical", ticket_type |-> "Trouble"] }

NoRow == CHOOSE r \in ThreadRows : r.skill_match = 1

\* the invocations a thread makes: the function and its arguments, a row or
\* the numbers in the order of the parameters
ThreadCalls ==
    {[op |-> op, input |-> [row |-> r, nums |-> <<>>]] :
        op \in {"calculate_rule_based_probability", "get_explanation"},
        r \in ThreadRows}
    \cup {[op |-> "get_workload_category", input |-> [row |-> NoRow, nums |-> <<x>>]] :
            x \in {40, 120}}
    \cup {[op |-> "get_distance_category", input |-> [row |-> NoRow, nums |-> <<x>>]] :
            x \in {5, 150}}
    \cup {[op |-> "blend_probabilities",
           input |-> [row |-> NoRow, nums |-> <<9000, 3700, DefaultRuleWeight>>]],
          [op |-> "calculate_dispatch_grade",
           input |-> [row |-> NoRow, nums |-> <<10, 45, PScale, 0, 0, None>>]]}

\* a thread that is in no scoring function
IdleFrame ==
    [op |-> "none", input |-> [row |-> NoRow, nums |-> <<>>], pc |-> "idle",
     prob |-> 0, value |-> 0, label |-> "", trace |-> <<>>]

\* the models directory before any save
NoFiles == [success_model |-> "absent", duration_model |-> "absent"]

\* no load function is running and the database has seen no connection
IdleLoader ==
    [fn |-> "none", only_unassigned |-> FALSE, pc |-> "idle",
     connection |-> "None", pending |-> "none", queries |-> 0,
     opened |-> 0, closed |-> 0]

Init ==
    /\ call = "idle"
    /\ args = <<>>
    /\ ret = <<>>
    /\ locals = <<>>
    /\ raised = "none"
    /\ predictor = "None"
    /\ rules = ScoringRules
    /\ threads = [t \in Threads |-> IdleFrame]
    /\ trainer = NoPredictor
    /\ files = NoFiles
    /\ loader = IdleLoader

SkillValues == {0, 1}
WorkloadValues == {0, 40, 49, 50, 79, 80, 99, 100, 120, 0 - 10, NaN}
DistanceValues == {0, 9, 10, 15, 49, 50, 99, 100, 150, 499, 500, 800, 0 - 5, NaN}
PriorityValues == {"Low", "Normal", "High", "Critical", "Urgent"}
TicketTypeValues == {"Order", "Trouble", "Install"}
RowFields == {"skill_match", "workload_ratio", "distance", "priority", "ticket_type"}
ProbValues == {0, 2500, 5000, 8000, PScale}
WeightValues == {0 - 50, 0, 30, 70, WScale, 150}
GradeDistances == {0, 1, 10, 100, 200, 249, 250, 251, 400}
OverrunValues == {0 - 60, 0 - 30, 0 - 15, 0 - 1, 0, 1, 45, 90, 91, 180}
SignalValues == {0, 5000, PScale}
DfRows ==
    { [skill_match |-> 1, workload_ratio |-> 40, distance |-> 15,
       priority |-> "Normal", ticket_type |-> "Order", expected_duration |-> 60],
      [skill_match |-> 0, workload_ratio |-> 80, distance |-> 50,
       priority |-> "Normal", ticket_type |-> "Order", expected_duration |-> 60] }
MlProbValues == {0, 4000, 6000, 8000}
DurationValues == {78, 79}
\* what the models of the predictor answer for one request: the class, the
\* probability of success, and the expected and the estimated minutes
ApiAnswers ==
    [pred : {0, 1}, prob : {0, 3999, 4000, 5999, 6000, 7999, 8000, PScale},
     expected : {60}, estimated : {50, 60, 78, 79}]
    \cup [pred : {0}, prob : {5000}, expected : {0}, estimated : {0, 1}]
BatchAnswers ==
    {a \in ApiAnswers : /\ a.prob \in {3999, 4000, 6000, 8000}
                        /\ a.estimated \in {78, 79}
                        /\ a.pred = (IF a.prob > PScale \div 2 THEN 1 ELSE 0)}
\* the rows of a frame: the values of required_skill and technician_skill,
\* and of skill_match, in the columns the frame has
Skills == {"fiber", "copper"}
FrameRows(columns) ==
    [required_skill : IF "required_skill" \in columns THEN Skills ELSE {"None"},
     technician_skill : IF "technician_skill" \in columns THEN Skills ELSE {"None"},
     skill_match : IF "skill_match" \in columns THEN {0, 1} ELSE {None}]
\* the rows and the answers of the requests of one POST /predict/batch
RequestRows ==
    {r \in FrameRows(Range(required_cols)) : r.required_skill = "fiber"}
RequestAnswers == {a \in BatchAnswers : a.prob = 8000}
MakeWeights == {0 - 50, 50, 70, 150}
ModelAnswers ==
    [row : DfRows, ml_pred : {0, 1}, ml_prob : MlProbValues, duration : DurationValues]

Row(present, sm, wl, d, pr, tt) ==
    [f \in present |->
        CASE f = "skill_match" -> sm
          [] f = "workload_ratio" -> wl
          [] f = "distance" -> d
          [] f = "priority" -> pr
          [] f = "ticket_type" -> tt]

\* the values a field takes in a row: one placeholder when the row lacks it
FieldValues(present, f, values) ==
    IF f \in present THEN values ELSE {CHOOSE v \in values : TRUE}

CallWorkloadCategory ==
    /\ call = "idle"
    /\ UNCHANGED <<predictor, rules, threads, trainer, files, loader>>
    /\ \E v \in WorkloadValues :
        /\ call' = "get_workload_category"
        /\ args' = [workload_ratio |-> v]
        /\ ret' = [category |-> get_workload_category(v)]
    /\ locals' = <<>>
    /\ raised' = "none"

CallDistanceCategory ==
    /\ call = "idle"
    /\ UNCHANGED <<predictor, rules, threads, trainer, files, loader>>
    /\ \E v \in DistanceValues :
        /\ call' = "get_distance_category"
        /\ args' = [distance |-> v]
        /\ ret' = [category |-> get_distance_category(v)]
    /\ locals' = <<>>
    /\ raised' = "none"

CallRuleProbability ==
    /\ call = "idle"
    /\ UNCHANGED <<predictor, rules, threads, trainer, files, loader>>
    /\ \E present \in SUBSET RowFields :
       \E sm \in FieldValues(present, "skill_match", SkillValues),
          wl \in FieldValues(present, "workload_ratio", WorkloadValues),
          d \in FieldValues(present, "distance", DistanceValues),
          pr \in FieldValues(present, "priority", PriorityValues),
          tt \in FieldValues(present, "ticket_type", TicketTypeValues) :
        LET row == Row(present, sm, wl, d, pr, tt)
        IN  /\ call' = "calculate_rule_based_probability"
            /\ args' = [row |-> row]
            /\ ret' = [value |-> calculate_rule_based_probability(row)]
            /\ locals' = <<>>
            /\ raised' = "none"

\* get_explanation(row)
CallExplanation ==
    /\ call = "idle"
    /\ UNCHANGED <<predictor, rules, threads, trainer, files, loader>>
    /\ \E present \in SUBSET RowFields :
       \E sm \in FieldValues(present, "skill_match", SkillValues),
          wl \in FieldValues(present, "workload_ratio", WorkloadValues),
          d \in FieldValues(present, "distance", DistanceValues),
          pr \in FieldValues(present, "priority", PriorityValues),
          tt \in FieldValues(present, "ticket_type", TicketTypeValues) :
        LET row == Row(present, sm, wl, d, pr, tt)
        IN  /\ call' = "get_explanation"
            /\ args' = [row |-> row]
            /\ ret' = [trace |-> get_explanation(row)]
            /\ locals' = [final_prob |-> calculate_rule_based_probability(row)]
            /\ raised' = "none"

\* blend_probabilities(ml_prob, rule_prob) and
\* blend_probabilities(ml_prob, rule_prob, rule_weight)
CallBlend ==
    /\ call = "idle"
    /\ UNCHANGED <<predictor, rules, threads, trainer, files, loader>>
    /\ \E ml_prob \in ProbValues, rule_prob \in ProbValues, given \in BOOLEAN :
       \E w \in IF given THEN WeightValues ELSE {DefaultRuleWeight} :
        /\ call' = "blend_probabilities"
        /\ args' = [ml_prob |-> ml_prob, rule_prob |-> rule_prob,
                    weight_given |-> given, rule_weight |-> w]
        /\ ret' = [value |-> blend_probabilities(ml_prob, rule_prob, w)]
        /\ locals' = <<>>
        /\ raised' = "none"

CallGrade ==
    /\ call = "idle"
    /\ UNCHANGED <<predictor, rules, threads, trainer, files, loader>>
    /\ \E distance \in GradeDistances, overrun \in OverrunValues,
          productive_dispatch \in SignalValues, first_time_fix \in SignalValues,
          use_probabilities \in BOOLEAN, success_prob \in SignalValues \cup {None} :
        /\ call' = "calculate_dispatch_grade"
        /\ args' = [distance |-> distance, overrun |-> overrun,
                    productive_dispatch |-> productive_dispatch,
                    first_time_fix |-> first_time_fix,
                    use_probabilities |-> use_probabilities,
                    success_prob |-> success_prob]
        /\ locals' = GradeLocals(distance, overrun, productive_dispatch,
                                 first_time_fix, use_probabilities, success_prob)
        /\ ret' = [value |-> calculate_dispatch_grade(
                                  distance, overrun, productive_dispatch,
                                  first_time_fix, use_probabilities, success_prob)]
    /\ raised' = "none"

\* make_predictions(df, rule_weight, use_hybrid): missing is the first file
\* of ModelFiles that does not exist (0: all three exist); a call without the
\* rules leaves rule_weight at its default
MakePredictions ==
    /\ call = "idle"
    /\ UNCHANGED <<predictor, rules, threads, trainer, files, loader>>
    /\ \E missing \in 0..Len(ModelFiles), use_hybrid \in BOOLEAN :
       \E rule_weight \in IF use_hybrid THEN MakeWeights ELSE {DefaultRuleWeight} :
       \E n \in 1..(IF missing = 0 THEN MaxRows ELSE 1) :
       \E answers \in [1..n -> ModelAnswers] :
        LET df == [i \in 1..n |-> answers[i].row]
            out == make_predictions(df, rule_weight, use_hybrid,
                                    [i \in 1..n |-> answers[i].ml_pred],
                                    [i \in 1..n |-> answers[i].ml_prob],
                                    [i \in 1..n |-> answers[i].duration])
        IN  /\ call' = "make_predictions"
            /\ args' = [df |-> df, rule_weight |-> rule_weight,
                        use_hybrid |-> use_hybrid, answers |-> answers,
                        missing |-> missing]
            /\ IF missing # 0
               THEN /\ raised' = "FileNotFoundError"
                    /\ ret' = <<>>
                    /\ locals' = <<>>
               ELSE /\ raised' = "none"
                    /\ ret' = [results |-> out.results]
                    /\ locals' = [rule_probabilities |-> out.rule_probabilities]

\* the caller takes the result; the next call starts from scratch
Return ==
    /\ call # "idle"
    /\ UNCHANGED <<predictor, rules, threads, trainer, files, loader>>
    /\ call' = "idle"
    /\ args' = <<>>
    /\ ret' = <<>>
    /\ locals' = <<>>
    /\ raised' = "none"

Next ==
    \/ CallWorkloadCategory
    \/ CallDistanceCategory
    \/ CallRuleProbability
    \/ CallExplanation
    \/ CallBlend
    \/ CallGrade
    \/ MakePredictions
    \/ Return

Spec == Init /\ [][Next]_vars

----------------------------------------------------------------------------
\* The prediction service: api.py and the DispatchPredictor it holds

\* an exception inside the handler propagates instead of becoming a 500
endpoint_Propagates(name, p, inner) ==
    IF p = "None"
    THEN [raised |-> "HTTP 503", detail |-> "Models not loaded", called |-> FALSE]
    ELSE IF name = "health_check"
    THEN [raised |-> "none", detail |-> "", called |-> FALSE]
    ELSE [raised |-> inner, detail |-> "", called |-> TRUE]

\* What an endpoint answers: p is the global predictor, inner the exception
\* raised inside its try block ("none": the block completes). The result
\* gives the HTTPException raised, its detail, and whether the handler called
\* a method of the predictor.
endpoint(name, p, inner) ==
    IF p = "None"
    THEN [raised |-> "HTTP 503", detail |-> "Models not loaded", called |-> FALSE]
    ELSE IF name = "health_check"
    THEN [raised |-> "none", detail |-> "", called |-> FALSE]
    ELSE IF inner # "none"
    THEN [raised |-> "HTTP 500", detail |-> inner, called |-> TRUE]
    ELSE [raised |-> "none", detail |-> "", called |-> TRUE]

\* startup_event: DispatchPredictor() loads the three files; missing is the
\* first file of PredictorFiles that does not exist (0: all three exist)
Startup ==
    /\ call = "idle"
    /\ predictor = "None"
    /\ UNCHANGED <<rules, threads, trainer, files, loader>>
    /\ \E missing \in 0..Len(PredictorFiles) :
        /\ call' = "startup_event"
        /\ args' = [missing |-> missing]
        /\ ret' = <<>>
        /\ locals' = <<>>
        /\ IF missing # 0
           THEN /\ raised' = "FileNotFoundError"
                /\ predictor' = "None"
           ELSE /\ raised' = "none"
                /\ predictor' = "loaded"

\* GET /health
HealthCheck ==
    /\ call = "idle"
    /\ UNCHANGED <<predictor, rules, threads, trainer, files, loader>>
    /\ call' = "health_check"
    /\ args' = <<>>
    /\ raised' = endpoint("health_check", predictor, "none").raised
    /\ locals' = [detail |-> endpoint("health_check", predictor, "none").detail,
                  predictor_called |->
                      endpoint("health_check", predictor, "none").called]
    /\ ret' = IF predictor = "None" THEN <<>> ELSE [status |-> "healthy"]

\* POST /predict: answer is what the models answer for the request, fails
\* says that predict_single raises instead
PredictDispatch ==
    /\ call = "idle"
    /\ UNCHANGED <<predictor, rules, threads, trainer, files, loader>>
    /\ \E answer \in ApiAnswers, fails \in BOOLEAN :
        LET result == predict_single(answer, answer.expected)
            inner == IF fails THEN "Exception" ELSE "none"
            answered == endpoint("predict_dispatch", predictor, inner)
        IN  /\ call' = "predict_dispatch"
            /\ args' = [request |-> [expected_duration |-> answer.expected],
                        answers |-> <<answer>>, fails |-> fails]
            /\ locals' = [detail |-> answered.detail,
                          predictor_called |-> answered.called]
            /\ raised' = answered.raised
            /\ ret' = IF answered.raised # "none" THEN <<>>
                      ELSE [response |->
                              [result |-> result,
                               recommendation |->
                                   predict_dispatch_recommendation(result)]]

\* POST /predict/batch: the frame built from the requests has the seven
\* fields of DispatchRequest as its columns, and no column when the list is
\* empty
PredictDispatchesBatch ==
    /\ call = "idle"
    /\ UNCHANGED <<predictor, rules, threads, trainer, files, loader>>
    /\ \E n \in 0..MaxRows, fails \in BOOLEAN :
       \E rows \in [1..n -> RequestRows], answers \in [1..n -> RequestAnswers] :
        LET df == [columns |-> IF n = 0 THEN {} ELSE Range(required_cols),
                   rows |-> rows]
            results == predict_batch(df, answers, fails)
            answered == endpoint("predict_dispatches_batch", predictor, results.raised)
        IN  /\ call' = "predict_dispatches_batch"
            /\ args' = [request |-> [expected_duration |-> 0], df |-> df,
                        answers |-> answers, fails |-> fails]
            /\ locals' = [detail |-> answered.detail,
                          predictor_called |-> answered.called]
            /\ raised' = answered.raised
            /\ ret' = IF answered.raised # "none" THEN <<>>
                      ELSE [predictions |->
                              [i \in DOMAIN results.result |->
                                 [result |-> results.result[i],
                                  recommendation |->
                                      predict_dispatches_batch_get_recommendation(
                                          results.result[i])]]]

\* DispatchPredictor.predict_batch on a constructed predictor, for a frame of
\* one row with any set of columns
CallPredictBatch ==
    /\ call = "idle"
    /\ predictor = "loaded"
    /\ UNCHANGED <<predictor, rules, threads, trainer, files, loader>>
    /\ \E columns \in SUBSET Range(FEATURE_COLUMNS) :
       \E row \in FrameRows(columns), fails \in BOOLEAN :
       \E answer \in (IF Range(FEATURE_COLUMNS) \ columns \subseteq {"skill_match"}
                      THEN BatchAnswers ELSE {CHOOSE a \in BatchAnswers : TRUE}) :
        LET dispatches == [columns |-> columns, rows |-> <<row>>]
            out == predict_batch(dispatches, <<answer>>, fails)
        IN  /\ fails => out.preprocessed
            /\ call' = "DispatchPredictor.predict_batch"
            /\ args' = [dispatches |-> dispatches, answers |-> <<answer>>,
                        fails |-> fails]
            /\ locals' = [dispatches |-> out.dispatches, names |-> out.names,
                          preprocessed |-> out.preprocessed]
            /\ raised' = out.raised
            /\ ret' = IF out.raised # "none" THEN <<>>
                      ELSE [batch |-> out.result]

\* DispatchPredictor.get_recommendation on a constructed predictor; an
\* exception of predict_single propagates to the caller
GetRecommendation ==
    /\ call = "idle"
    /\ predictor = "loaded"
    /\ UNCHANGED <<predictor, rules, threads, trainer, files, loader>>
    /\ \E answer \in ApiAnswers, fails \in BOOLEAN :
        LET result == predict_single(answer, answer.expected)
        IN  /\ call' = "DispatchPredictor.get_recommendation"
            /\ args' = [request |-> [expected_duration |-> answer.expected],
                        answers |-> <<answer>>, fails |-> fails]
            /\ locals' = <<>>
            /\ IF fails
               THEN /\ raised' = "Exception"
                    /\ ret' = <<>>
               ELSE /\ raised' = "none"
                    /\ ret' = [report |->
                                 [result |-> result,
                                  recommendation |->
                                      DispatchPredictor_get_recommendation(result)]]

RecommendationNext ==
    \/ Startup
    \/ HealthCheck
    \/ PredictDispatch
    \/ PredictDispatchesBatch
    \/ CallPredictBatch
    \/ GetRecommendation
    \/ MakePredictions
    \/ Return

RecommendationSpec == Init /\ [][RecommendationNext]_vars

----------------------------------------------------------------------------
\* Concurrent invocations on the shared instance

\* thread t enters a scoring function
Invoke(t) ==
    /\ threads[t].pc = "idle"
    /\ \E c \in ThreadCalls :
        threads' = [threads EXCEPT ![t] =
                        [IdleFrame EXCEPT !.op = c.op, !.input = c.input,
                                          !.pc = FirstPc(c.op)]]
    /\ UNCHANGED <<call, args, ret, locals, raised, predictor, rules, trainer, files, loader>>

\* thread t runs its next block of statements
Step(t) ==
    /\ threads[t].pc \notin {"idle", "done"}
    /\ rules' = Exec(rules, threads[t]).rules
    /\ threads' = [threads EXCEPT ![t] = Exec(rules, threads[t]).frame]
    /\ UNCHANGED <<call, args, ret, locals, raised, predictor, trainer, files, loader>>

\* the caller of thread t takes the result
Finish(t) ==
    /\ threads[t].pc = "done"
    /\ threads' = [threads EXCEPT ![t] = IdleFrame]
    /\ UNCHANGED <<call, args, ret, locals, raised, predictor, rules, trainer, files, loader>>

ConcurrentNext == \E t \in Threads : Invoke(t) \/ Step(t) \/ Finish(t)

ConcurrentSpec == Init /\ [][ConcurrentNext]_vars

----------------------------------------------------------------------------
\* Training: the life of one DispatchSuccessPredictor (model.py)

GuardedMethods ==
    {"predict", "predict_proba", "predict_success", "predict_duration", "save"}

\* predictor = DispatchSuccessPredictor(model_type=...)
Construct ==
    /\ call = "idle"
    /\ trainer = NoPredictor
    /\ UNCHANGED <<predictor, rules, threads, files, loader>>
    /\ \E model_type \in ModelTypes \cup {"svm"} :
        /\ call' = "DispatchSuccessPredictor"
        /\ args' = [model_type |-> model_type]
        /\ trainer' = DispatchSuccessPredictor(model_type).self
        /\ raised' = DispatchSuccessPredictor(model_type).raised
        /\ ret' = <<>>
        /\ locals' = <<>>

\* predictor.train(X_train, y_success_train[, y_duration_train])
CallTrain ==
    /\ call = "idle"
    /\ trainer # NoPredictor
    /\ UNCHANGED <<predictor, rules, threads, files, loader>>
    /\ \E has_duration \in BOOLEAN, fit_fails \in {"none", "success", "duration"} :
        /\ fit_fails = "duration" => has_duration
        /\ call' = "train"
        /\ args' = [has_duration |-> has_duration, fit_fails |-> fit_fails]
        /\ trainer' = train(trainer, has_duration, fit_fails).self
        /\ raised' = train(trainer, has_duration, fit_fails).raised
        /\ ret' = <<>>
        /\ locals' = <<>>

\* predictor.load()
CallLoad ==
    /\ call = "idle"
    /\ trainer # NoPredictor
    /\ UNCHANGED <<predictor, rules, threads, files, loader>>
    /\ call' = "load"
    /\ args' = <<>>
    /\ trainer' = load(trainer, files).self
    /\ raised' = load(trainer, files).raised
    /\ ret' = <<>>
    /\ locals' = <<>>

\* predictor.predict(X), .predict_proba(X), .predict_success(X),
\* .predict_duration(X) and predictor.save()
CallGuarded ==
    /\ call = "idle"
    /\ trainer # NoPredictor
    /\ UNCHANGED <<predictor, rules, threads, trainer, loader>>
    /\ \E method \in GuardedMethods :
        /\ call' = method
        /\ args' = <<>>
        /\ raised' = guarded_call(trainer, method).raised
        /\ locals' = [touched |-> guarded_call(trainer, method).touched]
        /\ files' = IF method = "save" THEN save(trainer, files) ELSE files
        /\ ret' = IF guarded_call(trainer, method).raised = "none" /\ method # "save"
                  THEN [prediction |-> method]
                  ELSE <<>>

TrainerNext ==
    \/ Construct
    \/ CallTrain
    \/ CallLoad
    \/ CallGuarded
    \/ Return

TrainerSpec == Init /\ [][TrainerNext]_vars

----------------------------------------------------------------------------
\* Loading: load_data, load_current_dispatches and
\* load_unassigned_or_all_dispatches, each with a DataLoader of its own

LoadFunctions ==
    {"load_data", "load_current_dispatches", "load_unassigned_or_all_dispatches"}

\* the queries the try block of a load function sends
Queries(fn) == IF fn = "load_unassigned_or_all_dispatches" THEN 2 ELSE 1

MaxConnections == 4

\* disconnect() that closes nothing
disconnect_Forgets(l) ==
    [l EXCEPT !.pc = IF l.pending = "none" THEN "returned" ELSE "raised"]

\* DataLoader.connect(): ok says that psycopg2.connect returns a connection.
\* The load functions call it before their try block, so its exception leaves
\* the function at once.
connect(l, ok) ==
    IF ok
    THEN [l EXCEPT !.connection = "open", !.opened = @ + 1, !.pc = "query"]
    ELSE [l EXCEPT !.pending = "Exception", !.pc = "raised"]

\* one pd.read_sql_query of the try block: an exception is printed, raised
\* again and passes through the finally clause
query(l, ok) ==
    IF ~ok THEN [l EXCEPT !.pending = "Exception", !.pc = "disconnect"]
    ELSE IF l.queries > 1 THEN [l EXCEPT !.queries = @ - 1]
    ELSE [l EXCEPT !.queries = 0, !.pc = "disconnect"]

\* DataLoader.disconnect(), the finally clause of a load function or a call of
\* its own: it closes the connection if the loader has one, then the function
\* returns, or raises the pending exception
disconnect(l) ==
    IF l.connection # "None"
    THEN [l EXCEPT !.connection = "closed",
                   !.closed = IF l.connection = "open" THEN @ + 1 ELSE @,
                   !.pc = IF l.pending = "none" THEN "returned" ELSE "raised"]
    ELSE [l EXCEPT !.pc = IF l.pending = "none" THEN "returned" ELSE "raised"]

\* a load function is called: loader = DataLoader()
LoadCall ==
    /\ loader.pc = "idle"
    /\ loader.opened < MaxConnections
    /\ \E fn \in LoadFunctions, only_unassigned \in BOOLEAN :
        /\ only_unassigned => fn = "load_unassigned_or_all_dispatches"
        /\ loader' = [IdleLoader EXCEPT !.fn = fn,
                                        !.only_unassigned = only_unassigned,
                                        !.pc = "connect",
                                        !.queries = Queries(fn),
                                        !.opened = loader.opened,
                                        !.closed = loader.closed]
    /\ UNCHANGED <<call, args, ret, locals, raised, predictor, rules, threads, trainer, files>>

\* DataLoader().disconnect() on a loader that never connected
DisconnectCall ==
    /\ loader.pc = "idle"
    /\ loader' = [IdleLoader EXCEPT !.fn = "DataLoader.disconnect",
                                    !.pc = "disconnect",
                                    !.opened = loader.opened,
                                    !.closed = loader.closed]
    /\ UNCHANGED <<call, args, ret, locals, raised, predictor, rules, threads, trainer, files>>

\* loader.connect()
Connect ==
    /\ loader.pc = "connect"
    /\ \E ok \in BOOLEAN : loader' = connect(loader, ok)
    /\ UNCHANGED <<call, args, ret, locals, raised, predictor, rules, threads, trainer, files>>

\* the next query of the try block
Query ==
    /\ loader.pc = "query"
    /\ \E ok \in BOOLEAN : loader' = query(loader, ok)
    /\ UNCHANGED <<call, args, ret, locals, raised, predictor, rules, threads, trainer, files>>

\* loader.disconnect()
Disconnect ==
    /\ loader.pc = "disconnect"
    /\ loader' = disconnect(loader)
    /\ UNCHANGED <<call, args, ret, locals, raised, predictor, rules, threads, trainer, files>>

\* the caller takes the frames or the exception; the loader is dropped
LoadReturn ==
    /\ loader.pc \in {"returned", "raised"}
    /\ loader' = [IdleLoader EXCEPT !.opened = loader.opened,
                                    !.closed = loader.closed]
    /\ UNCHANGED <<call, args, ret, locals, raised, predictor, rules, threads, trainer, files>>

LoaderNext ==
    \/ LoadCall
    \/ DisconnectCall
    \/ Connect
    \/ Query
    \/ Disconnect
    \/ LoadReturn

LoaderSpec == Init /\ [][LoaderNext]_vars

----------------------------------------------------------------------------
\* Properties

RuleCall == call = "calculate_rule_based_probability"

\* the row of the call gives skill_match 0 or 1 and no negative or NaN number
RowInRange(row) ==
    /\ Get(row, "skill_match", 0) \in {0, 1}
    /\ FGe(Get(row, "workload_ratio", 50), 0)
    /\ FGe(Get(row, "distance", 50), 0)

\* every field is given and every categorical value is a known one
RowComplete(row) ==
    /\ DOMAIN row = RowFields
    /\ RowInRange(row)
    /\ row.priority \in {"Low", "Normal", "High", "Critical"}
    /\ row.ticket_type \in {"Order", "Trouble"}

MostNegativeRow(row) ==
    /\ RowComplete(row)
    /\ row.skill_match = 0 /\ row.workload_ratio >= 100 /\ row.distance >= 500
    /\ row.priority = "Critical" /\ row.ticket_type = "Trouble"

MostPositiveRow(row) ==
    /\ RowComplete(row)
    /\ row.skill_match = 1 /\ row.workload_ratio < 50 /\ row.distance < 10
    /\ row.priority = "Low" /\ row.ticket_type = "Order"

\* C1: for every row with skill_match 0 or 1, workload_ratio >= 0, distance >= 0
\* and any priority and ticket_type (known, unknown or missing),
\* calculate_rule_based_probability returns p with 0 <= p <= 1; the most
\* negative adjustment stack returns 0 and the most positive one returns 1.
C1_RuleProbabilityInUnitInterval ==
    (RuleCall /\ RowInRange(args.row)) =>
        /\ 0 <= ret.value /\ ret.value <= PScale
        /\ MostNegativeRow(args.row) => ret.value = 0
        /\ MostPositiveRow(args.row) => ret.value = PScale

C1_Witness ==
    RuleCall /\ MostNegativeRow(args.row) /\ ret.value = 0 /\ raised = "none"

\* The adjustments as the specification lists them
SpecSkill(row) == IF row.skill_match = 1 THEN 3700 ELSE 0 - 1000

SpecWorkload(row) ==
    IF row.workload_ratio < 50 THEN 3200
    ELSE IF row.workload_ratio < 80 THEN 3000
    ELSE IF row.workload_ratio < 100 THEN 0 - 1000
    ELSE 0 - 3000

SpecDistance(row) ==
    IF row.distance < 10 THEN 3300
    ELSE IF row.distance < 50 THEN 500
    ELSE IF row.distance < 100 THEN 0
    ELSE IF row.distance < 500 THEN 0 - 1200
    ELSE 0 - 3000

SpecPriority(row) ==
    CASE row.priority = "Low" -> 200
      [] row.priority = "Normal" -> 0
      [] row.priority = "High" -> 0 - 200
      [] row.priority = "Critical" -> 0 - 500

SpecTicket(row) == IF row.ticket_type = "Order" THEN 200 ELSE 0 - 300

SpecSum(row) ==
    5500 + SpecSkill(row) + SpecWorkload(row) + SpecDistance(row)
         + SpecPriority(row) + SpecTicket(row)

SpecRuleProbability(row) ==
    IF SpecSum(row) < 0 THEN 0 ELSE IF SpecSum(row) > PScale THEN PScale ELSE SpecSum(row)

IdealRow ==
    [skill_match |-> 1, workload_ratio |-> 40, distance |-> 15,
     priority |-> "Normal", ticket_type |-> "Order"]

ChallengingRow ==
    [skill_match |-> 0, workload_ratio |-> 120, distance |-> 150,
     priority |-> "Critical", ticket_type |-> "Trouble"]

\* C2: for a complete row calculate_rule_based_probability returns exactly
\* clip(0.55 + skill + workload + distance + priority + ticket, 0, 1) with the
\* adjustments of the specification; (1, 0.4, 15, Normal, Order) gives 1.0 and
\* (0, 1.2, 150, Critical, Trouble) gives 0.0.
C2_RuleProbabilityIsClippedSum ==
    (RuleCall /\ RowComplete(args.row)) =>
        /\ ret.value = SpecRuleProbability(args.row)
        /\ args.row = IdealRow => ret.value = PScale
        /\ args.row = ChallengingRow => ret.value = 0

\* a call whose sum needs no clipping
C2_Witness ==
    /\ RuleCall /\ RowComplete(args.row)
    /\ SpecSum(args.row) > 0 /\ SpecSum(args.row) < PScale
    /\ args.row.distance >= 100
    /\ ret.value = SpecSum(args.row)

CategoryCall == call \in {"get_workload_category", "get_distance_category"}

CategoryTable ==
    IF call = "get_workload_category" THEN workload_thresholds ELSE distance_thresholds

CategoryValue ==
    IF call = "get_workload_category" THEN args.workload_ratio ELSE args.distance

\* the intervals of the table of this call that hold its value
Holding ==
    {i \in DOMAIN CategoryTable :
        /\ CategoryTable[i].min_val <= CategoryValue
        /\ (CategoryTable[i].max_val = Inf \/ CategoryValue < CategoryTable[i].max_val)}

\* C3: get_workload_category and get_distance_category give every value >= 0
\* exactly one bucket, the one whose interval [min_val, max_val) holds it, so a
\* value on a boundary gets the bucket that starts there.
C3_ExactlyOneBucket ==
    (CategoryCall /\ FGe(CategoryValue, 0)) =>
        /\ Cardinality(Holding) = 1
        /\ \A i \in Holding : ret.category = CategoryTable[i].category
        /\ \A i \in DOMAIN CategoryTable :
              CategoryValue = CategoryTable[i].min_val => ret.category = CategoryTable[i].category
        /\ (call = "get_workload_category" /\ CategoryValue = 0) => ret.category = "low"
        /\ (call = "get_workload_category" /\ CategoryValue = 50) => ret.category = "medium"
        /\ (call = "get_workload_category" /\ CategoryValue = 80) => ret.category = "high"
        /\ (call = "get_workload_category" /\ CategoryValue = 100) => ret.category = "overloaded"
        /\ (call = "get_distance_category" /\ CategoryValue = 0) => ret.category = "very_close"
        /\ (call = "get_distance_category" /\ CategoryValue = 10) => ret.category = "close"
        /\ (call = "get_distance_category" /\ CategoryValue = 50) => ret.category = "medium"
        /\ (call = "get_distance_category" /\ CategoryValue = 100) => ret.category = "far"
        /\ (call = "get_distance_category" /\ CategoryValue = 500) => ret.category = "very_far"

C3_Witness ==
    call = "get_distance_category" /\ args.distance = 500 /\ ret.category = "very_far"

BlendCall == call = "blend_probabilities"

WeightOutOfRange(w) == w < 0 \/ w > WScale

\* C4: blend_probabilities rejects a rule_weight outside [0,1] with a
\* configuration error instead of returning a blended value, so make_predictions
\* called in hybrid mode with such a weight produces no success probabilities.
C4_OutOfRangeWeightRejected ==
    /\ (BlendCall /\ WeightOutOfRange(args.rule_weight)) => raised # "none"
    /\ (call = "make_predictions" /\ args.use_hybrid
            /\ WeightOutOfRange(args.rule_weight)) => raised # "none"

\* C5: blend_probabilities returns rule_weight * rule_prob + (1 - rule_weight) *
\* ml_prob, with rule_weight 0.7 when none is given; for rule_weight = 1 the
\* result is rule_prob whatever ml_prob is, for rule_weight = 0 it is ml_prob.
C5_BlendIsWeightedSum ==
    BlendCall =>
        /\ ret.value * WScale = args.rule_weight * args.rule_prob
                          + (WScale - args.rule_weight) * args.ml_prob
        /\ ~args.weight_given =>
              ret.value * 10 = 7 * args.rule_prob + 3 * args.ml_prob
        /\ args.rule_weight = WScale => ret.value = args.rule_prob
        /\ args.rule_weight = 0 => ret.value = args.ml_prob

C5_Witness ==
    /\ BlendCall /\ args.rule_weight = WScale
    /\ args.ml_prob # args.rule_prob /\ ret.value = args.rule_prob

Smaller(a, b) == IF a <= b THEN a ELSE b
Larger(a, b) == IF a >= b THEN a ELSE b

GradeCall == call = "calculate_dispatch_grade"

\* the call runs in probability mode
ProbabilityMode == args.use_probabilities /\ args.success_prob # None

\* the two signals the call scores
ProductiveSignal ==
    IF ProbabilityMode THEN args.success_prob ELSE args.productive_dispatch

FtfSignal ==
    IF ProbabilityMode THEN args.success_prob ELSE args.first_time_fix

ComponentSum ==
    locals.distance_score + locals.duration_score
        + locals.productive_score + locals.ftf_score

\* C7: for distance >= 0, any overrun and signals in [0,1], in observed and in
\* probability mode, the grade g satisfies 0 <= g <= 100; every component is
\* non-negative; the cap is applied once to the sum, so distance 0, overrun -30
\* and both signals 1 have components summing to 106 and return exactly 100.
C7_GradeInRange ==
    GradeCall =>
        /\ 0 <= ret.value /\ ret.value <= 100 * GScale
        /\ locals.distance_score >= 0 /\ locals.duration_score >= 0
        /\ locals.productive_score >= 0 /\ locals.ftf_score >= 0
        /\ (args.distance = 0 /\ args.overrun = 0 - 30
                /\ ProductiveSignal = PScale /\ FtfSignal = PScale) =>
              (ComponentSum = 106 * GScale /\ ret.value = 100 * GScale)

C7_Witness ==
    /\ GradeCall /\ args.distance = 0 /\ args.overrun = 0 - 30
    /\ ~args.use_probabilities
    /\ args.productive_dispatch = PScale /\ args.first_time_fix = PScale
    /\ ComponentSum = 106 * GScale /\ ret.value = 100 * GScale

\* The duration score as the specification gives it: one point is GScale, the
\* bonus is a fifth of a point per minute early, the penalty a third of a
\* point per minute late
SpecDurationScore(overrun) ==
    IF overrun <= 0
    THEN 30 * GScale + Smaller(6 * GScale, (Abs(overrun) * GScale) \div 5)
    ELSE Larger(0, 30 * GScale - (overrun * GScale) \div 3)

\* points * signal, in grade units, for a signal in [0,1]
SpecPoints(points, signal) ==
    (points * (GScale \div 100) * signal) \div (PScale \div 100)

\* C8: in observed mode the grade is min(100, distance_score + duration_score +
\* 25 * productive + 15 * first_time_fix); (0, 0, 1, 1) gives exactly 100 =
\* 30 + 30 + 25 + 15 and (250, 90, 0, 0) gives exactly 0.
C8_GradeIsCappedSum ==
    (GradeCall /\ ~ProbabilityMode) =>
        /\ ret.value = Smaller(100 * GScale,
                         locals.distance_score + SpecDurationScore(args.overrun)
                           + SpecPoints(25, args.productive_dispatch)
                           + SpecPoints(15, args.first_time_fix))
        /\ (args.distance = 0 /\ args.overrun = 0
                /\ args.productive_dispatch = PScale
                /\ args.first_time_fix = PScale) =>
              /\ locals.distance_score = 30 * GScale
              /\ locals.duration_score = 30 * GScale
              /\ locals.productive_score = 25 * GScale
              /\ locals.ftf_score = 15 * GScale
              /\ ret.value = 100 * GScale
        /\ (args.distance = 250 /\ args.overrun = 90
                /\ args.productive_dispatch = 0 /\ args.first_time_fix = 0) =>
              ret.value = 0

C8_Witness ==
    /\ GradeCall /\ ~ProbabilityMode
    /\ args.distance = 250 /\ args.overrun = 90
    /\ args.productive_dispatch = 0 /\ args.first_time_fix = 0
    /\ ret.value = 0

\* C9: the duration component is 30 + min(6, |overrun| / 30 * 6) for overrun <= 0
\* and max(0, 30 - overrun * 30/90) for overrun > 0: 36 at -30 and earlier, 30
\* at 0 (taken by the on-time/early branch), 0 at +90 and later, always in
\* [0,36].
C9_DurationScore ==
    GradeCall =>
        /\ locals.duration_score = SpecDurationScore(args.overrun)
        /\ args.overrun <= 0 - 30 => locals.duration_score = 36 * GScale
        /\ args.overrun = 0 =>
              (locals.duration_score = 30 * GScale /\ locals.duration_branch = "early")
        /\ args.overrun >= 90 => locals.duration_score = 0
        /\ 0 <= locals.duration_score /\ locals.duration_score <= 36 * GScale

C9_Witness ==
    /\ GradeCall /\ args.overrun = 180
    /\ locals.duration_branch = "late" /\ locals.duration_score = 0

\* C10: for every distance >= 250, 250 included, the distance component is
\* exactly 0 and comes from the threshold branch, not from the exponential.
C10_DistanceScoreZeroFrom250 ==
    (GradeCall /\ args.distance >= 250) =>
        (locals.distance_score = 0 /\ locals.distance_branch = "threshold")

C10_Witness ==
    /\ GradeCall /\ args.distance = 250
    /\ locals.distance_score = 0 /\ locals.distance_branch = "threshold"

\* 30 * exp(-0.02 * d) in grade units, to the nearest unit, for the distances
\* below 250 the calls draw
SpecExpScore(d) ==
    CASE d = 0 -> 180000
      [] d = 1 -> 176436
      [] d = 10 -> 147372
      [] d = 100 -> 24360
      [] d = 200 -> 3297
      [] d = 249 -> 1237

\* a hundredth of a grade point
ExpTolerance == GScale \div 100

TierOf(label) ==
    CASE label \in {"PROCEED", "PROCEED - High probability of success"} -> "PROCEED"
      [] label \in {"PROCEED WITH CAUTION",
                    "PROCEED WITH CAUTION - Moderate probability of success"} ->
            "PROCEED WITH CAUTION"
      [] label \in {"REVIEW", "REVIEW - Low probability of success",
                    "REVIEW - Low probability of success, consider reassignment"} ->
            "REVIEW"
      [] label \in {"DO NOT PROCEED",
                    "DO NOT PROCEED - Very low probability of success",
                    "DO NOT PROCEED - Very low probability of success, reassign dispatch"} ->
            "DO NOT PROCEED"

\* the tier of a probability: each lower bound belongs to the higher tier
SpecTier(prob) ==
    IF prob >= 8000 THEN "PROCEED"
    ELSE IF prob >= 6000 THEN "PROCEED WITH CAUTION"
    ELSE IF prob >= 4000 THEN "REVIEW"
    ELSE "DO NOT PROCEED"

\* The recommendations of the call that has just returned: each with the row
\* (success_probability, duration_difference, expected_duration) it was built
\* from.
Recommended ==
    IF raised # "none" THEN <<>>
    ELSE CASE call = "predict_dispatch" ->
                <<[row |-> ret.response.result, rec |-> ret.response.recommendation]>>
           [] call = "DispatchPredictor.get_recommendation" ->
                <<[row |-> ret.report.result, rec |-> ret.report.recommendation]>>
           [] call = "predict_dispatches_batch" ->
                [i \in DOMAIN ret.predictions |->
                    [row |-> ret.predictions[i].result,
                     rec |-> ret.predictions[i].recommendation]]
           [] call = "make_predictions" ->
                [i \in DOMAIN ret.results |->
                    [row |-> [success_probability |-> ret.results[i].success_probability,
                              duration_difference |-> ret.results[i].duration_difference,
                              expected_duration |-> args.df[i].expected_duration],
                     rec |-> ret.results[i].recommendation]]
           [] OTHER -> <<>>

\* C12: make_predictions and POST /predict give every probability in [0,1]
\* exactly one of the four tiers, each lower bound inclusive: PROCEED from 0.8,
\* PROCEED WITH CAUTION in [0.6, 0.8), REVIEW in [0.4, 0.6), DO NOT PROCEED
\* below 0.4; exactly 0.8, 0.6 and 0.4 get the higher tier and a probability
\* just below 0.8 gets PROCEED WITH CAUTION.
C12_TierByProbability ==
    call \in {"make_predictions", "predict_dispatch"} =>
        \A i \in DOMAIN Recommended :
            LET prob == Recommended[i].row.success_probability
                tier == TierOf(Recommended[i].rec.tier)
            IN  (0 <= prob /\ prob <= PScale) =>
                    /\ tier = SpecTier(prob)
                    /\ prob = 8000 => tier = "PROCEED"
                    /\ prob = 7999 => tier = "PROCEED WITH CAUTION"
                    /\ prob = 6000 => tier = "PROCEED WITH CAUTION"
                    /\ prob = 4000 => tier = "REVIEW"
                    /\ prob < 4000 => tier = "DO NOT PROCEED"

\* make_predictions has labelled one row at exactly 0.8 and one at exactly 0.4
C12_Witness ==
    /\ call = "make_predictions" /\ raised = "none" /\ Len(ret.results) = 2
    /\ ret.results[1].success_probability = 8000
    /\ ret.results[1].recommendation.tier = "PROCEED"
    /\ ret.results[2].success_probability = 4000
    /\ ret.results[2].recommendation.tier = "REVIEW"

\* C13: make_predictions, POST /predict and POST /predict/batch append the
\* duration warning exactly when duration_difference > 0.3 * expected_duration
\* (strictly: a difference of exactly 30% gives no warning), and the tier of a
\* label with a warning is the tier the probability alone gives. The labelling
\* function of POST /predict/batch is applied to every row another caller
\* has labelled.
C13_WarningAboveThirtyPercent ==
    call \in {"make_predictions", "predict_dispatch", "predict_dispatches_batch"} =>
        \A i \in DOMAIN Recommended :
            LET row == Recommended[i].row
                rec == Recommended[i].rec
                batch == predict_dispatches_batch_get_recommendation(row)
            IN  /\ rec.warning <=>
                      10 * row.duration_difference > 3 * row.expected_duration
                /\ 10 * row.duration_difference = 3 * row.expected_duration =>
                      ~rec.warning
                /\ rec.warning =>
                      /\ TierOf(rec.tier) = SpecTier(row.success_probability)
                      /\ rec.minutes = row.duration_difference
                /\ batch.warning <=>
                      10 * row.duration_difference > 3 * row.expected_duration
                /\ batch.warning =>
                      /\ TierOf(batch.tier) = SpecTier(row.success_probability)
                      /\ batch.minutes = row.duration_difference

\* POST /predict for a duration one minute above 30%: a warning, and none for
\* the same answer at exactly 30%
C13_Witness ==
    /\ call = "predict_dispatch" /\ raised = "none"
    /\ ret.response.result.expected_duration = 60
    /\ ret.response.result.duration_difference = 19
    /\ ret.response.recommendation.warning
    /\ ret.response.recommendation.minutes = 19
    /\ ~predict_dispatch_recommendation(
            [ret.response.result EXCEPT !.duration_difference = 18]).warning
    /\ ~predict_dispatches_batch_get_recommendation(
            [ret.response.result EXCEPT !.duration_difference = 18]).warning

\* the row with every absent field at the value the specification scores it as
Filled(row) ==
    [f \in RowFields |->
        CASE f = "skill_match" -> Get(row, f, 0)
          [] f = "workload_ratio" -> Get(row, f, 50)
          [] f = "distance" -> Get(row, f, 50)
          [] f = "priority" -> Get(row, f, "Normal")
          [] f = "ticket_type" -> Get(row, f, "Order")]

\* the adjustments of the specification, 0 for a value outside its tables
SpecPriorityTotal(row) ==
    IF row.priority \in {"Low", "Normal", "High", "Critical"}
    THEN SpecPriority(row) ELSE 0

SpecTicketTotal(row) ==
    IF row.ticket_type \in {"Order", "Trouble"} THEN SpecTicket(row) ELSE 0

SpecSumTotal(row) ==
    5500 + SpecSkill(row) + SpecWorkload(row) + SpecDistance(row)
         + SpecPriorityTotal(row) + SpecTicketTotal(row)

SpecRuleProbabilityTotal(row) ==
    Larger(0, Smaller(PScale, SpecSumTotal(row)))

\* C14: calculate_rule_based_probability never raises for an absent optional
\* field or an unknown categorical value: a row without workload_ratio is
\* scored as workload 0.5 (medium), without priority as 'Normal', without
\* ticket_type as 'Order', and an unknown priority or ticket_type contributes
\* exactly 0.
C14_TotalOverPartialRows ==
    (RuleCall /\ RowInRange(args.row)) =>
        /\ raised = "none"
        /\ ret.value = SpecRuleProbabilityTotal(Filled(args.row))
        /\ "workload_ratio" \notin DOMAIN args.row =>
              ret.value = calculate_rule_based_probability(
                              [f \in DOMAIN args.row \cup {"workload_ratio"} |->
                                  IF f = "workload_ratio" THEN 50 ELSE args.row[f]])
        /\ ("priority" \in DOMAIN args.row
                /\ args.row.priority \notin {"Low", "Normal", "High", "Critical"}) =>
              ret.value = SpecRuleProbabilityTotal(
                              [Filled(args.row) EXCEPT !.priority = "Normal"])
        /\ ("ticket_type" \in DOMAIN args.row
                /\ args.row.ticket_type \notin {"Order", "Trouble"}) =>
              LET row == Filled(args.row)
              IN  ret.value = Larger(0, Smaller(PScale,
                      5500 + SpecSkill(row) + SpecWorkload(row)
                           + SpecDistance(row) + SpecPriorityTotal(row)))

\* a row with only skill_match and distance: the three defaults and no clipping
C14_Witness ==
    /\ RuleCall /\ DOMAIN args.row = {"skill_match", "distance"}
    /\ args.row.skill_match = 0 /\ args.row.distance = 150
    /\ raised = "none"
    /\ ret.value = 5500 - 1000 + 3000 - 1200 + 0 + 200

\* the number of the field is negative or NaN: no interval of the table has it
InNoInterval(x) == ~FGe(x, 0)

\* the row with such numbers replaced by a number of the medium bucket
Medium(row) ==
    [f \in DOMAIN row |->
        IF f \in {"workload_ratio", "distance"} /\ InNoInterval(row[f])
        THEN 50 ELSE row[f]]

\* C15: for a value that falls in no interval (negative, or NaN)
\* get_workload_category and get_distance_category return 'medium' instead of
\* raising, so calculate_rule_based_probability still returns a probability in
\* [0,1] for such a row.
C15_DefaultBucketIsMedium ==
    /\ (CategoryCall /\ InNoInterval(CategoryValue)) =>
            (ret.category = "medium" /\ raised = "none")
    /\ (RuleCall /\ Get(args.row, "skill_match", 0) \in {0, 1}
            /\ (InNoInterval(Get(args.row, "workload_ratio", 50))
                \/ InNoInterval(Get(args.row, "distance", 50)))) =>
            /\ raised = "none"
            /\ 0 <= ret.value /\ ret.value <= PScale
            /\ ret.value = SpecRuleProbabilityTotal(Filled(Medium(args.row)))

\* a NaN workload and a negative distance, scored without clipping
C15_Witness ==
    /\ RuleCall /\ DOMAIN args.row = RowFields
    /\ args.row.workload_ratio = NaN /\ args.row.distance < 0
    /\ args.row.distance # NaN
    /\ args.row.skill_match = 0 /\ args.row.priority = "Critical"
    /\ args.row.ticket_type = "Trouble"
    /\ ret.value = 5500 - 1000 + 3000 + 0 - 500 - 300

ExplanationCall == call = "get_explanation"

\* the place of a factor in the fixed order of the trace
FactorRank(name) ==
    CASE name = "Base rate" -> 1
      [] name \in {"Skill match", "Skill mismatch"} -> 2
      [] name = "Workload" -> 3
      [] name = "Distance" -> 4
      [] name = "Priority" -> 5
      [] name = "Type" -> 6
      [] name = "Final" -> 7

\* the sum of the percentages of the first n entries of a trace
RECURSIVE SumPct(_, _)
SumPct(trace, n) == IF n = 0 THEN 0 ELSE SumPct(trace, n - 1) + trace[n].pct

\* C16: the trace of get_explanation lists the factors in the fixed order base
\* rate, skill, workload, distance, priority, ticket type and ends with the
\* final value; the final value is calculate_rule_based_probability(row), and
\* the base plus the listed contributions, clipped to [0,1], is the final
\* value (a factor left out contributes 0).
C16_ExplanationProjectsProbability ==
    ExplanationCall =>
        LET trace == ret.trace
            n == Len(trace)
        IN  /\ n >= 5
            /\ \A i \in 1..4 : FactorRank(trace[i].factor) = i
            /\ trace[n].factor = "Final"
            /\ \A i \in 1..n : \A j \in 1..n :
                  i < j => FactorRank(trace[i].factor) < FactorRank(trace[j].factor)
            /\ trace[n].pct * (PScale \div 100) =
                  calculate_rule_based_probability(args.row)
            /\ Larger(0, Smaller(100, SumPct(trace, n - 1))) = trace[n].pct

\* all six factors listed, none clipped
C16_Witness ==
    /\ ExplanationCall /\ Len(ret.trace) = 7
    /\ ret.trace[5].factor = "Priority" /\ ret.trace[5].pct < 0
    /\ ret.trace[6].factor = "Type" /\ ret.trace[6].pct < 0
    /\ SumPct(ret.trace, 6) = ret.trace[7].pct
    /\ 0 < ret.trace[7].pct /\ ret.trace[7].pct < 100

\* C17: in probability mode (use_probabilities true and success_prob given)
\* the productive component is 25 * success_prob, the first-time-fix component
\* 15 * success_prob, and the grade does not depend on productive_dispatch or
\* first_time_fix; otherwise the components are 25 * productive_dispatch and
\* 15 * first_time_fix and success_prob is ignored.
C17_ProbabilityModeSignals ==
    GradeCall =>
        IF ProbabilityMode
        THEN /\ locals.productive_score = SpecPoints(25, args.success_prob)
             /\ locals.ftf_score = SpecPoints(15, args.success_prob)
             /\ \A p \in SignalValues, f \in SignalValues :
                    calculate_dispatch_grade(args.distance, args.overrun, p, f,
                                             TRUE, args.success_prob) = ret.value
        ELSE /\ locals.productive_score = SpecPoints(25, args.productive_dispatch)
             /\ locals.ftf_score = SpecPoints(15, args.first_time_fix)
             /\ ~args.use_probabilities =>
                    \A s \in SignalValues \cup {None} :
                        calculate_dispatch_grade(args.distance, args.overrun,
                                                 args.productive_dispatch,
                                                 args.first_time_fix, FALSE, s)
                            = ret.value

\* probability mode with observed signals that say the opposite
C17_Witness ==
    /\ GradeCall /\ ProbabilityMode /\ args.success_prob = 5000
    /\ args.productive_dispatch = PScale /\ args.first_time_fix = 0
    /\ locals.productive_score = (25 * GScale) \div 2
    /\ locals.ftf_score = (15 * GScale) \div 2
    /\ ret.value < 100 * GScale

\* what an invocation returns, in a frame that has run to its end
Returned(f) ==
    CASE f.op = "get_explanation" -> f.trace
      [] f.op \in {"get_workload_category", "get_distance_category"} -> f.label
      [] OTHER -> f.value

\* what the same invocation returns when it runs alone
Alone(f) ==
    LET row == f.input.row
        nums == f.input.nums
    IN  CASE f.op = "calculate_rule_based_probability" ->
                calculate_rule_based_probability(row)
          [] f.op = "get_explanation" -> get_explanation(row)
          [] f.op = "get_workload_category" -> get_workload_category(nums[1])
          [] f.op = "get_distance_category" -> get_distance_category(nums[1])
          [] f.op = "blend_probabilities" ->
                blend_probabilities(nums[1], nums[2], nums[3])
          [] f.op = "calculate_dispatch_grade" ->
                calculate_dispatch_grade(nums[1], nums[2], nums[3], nums[4],
                                         nums[5] = 1, nums[6])

\* C18: under any interleaving of concurrent invocations of the scoring
\* functions on one shared DispatchBusinessRules instance, each invocation
\* returns the value it returns when run alone on the same input, and the base
\* rate, the threshold tables and the adjustment tables keep the values set by
\* __init__ in every reachable state.
C18_InvocationsDoNotInterfere ==
    /\ rules = ScoringRules
    /\ \A t \in Threads :
          threads[t].pc = "done" => Returned(threads[t]) = Alone(threads[t])

\* one thread has returned a probability while another is in the middle of
\* get_explanation on another row
C18_Witness ==
    \E t \in Threads, u \in Threads :
        /\ t # u
        /\ threads[t].op = "calculate_rule_based_probability"
        /\ threads[t].pc = "done"
        /\ threads[t].value = 0
        /\ threads[u].op = "get_explanation"
        /\ threads[u].pc = "distance"
        /\ threads[u].input.row # threads[t].input.row

MakeCall == call = "make_predictions" /\ raised = "none"

\* C19: with use_hybrid = True each row's success_probability is the blend of
\* that row's ML probability and that row's rule probability with the given
\* rule_weight, success_prediction is 1 exactly when the blend is >= 0.5 and
\* failure_probability is 1 - success_probability; with use_hybrid = False the
\* ML probabilities and the ML class predictions are used unchanged and no
\* rule probability is computed.
C19_HybridBlendsRowByRow ==
    MakeCall =>
        \A i \in DOMAIN args.df :
            LET out == ret.results[i]
                ml == args.answers[i]
            IN  /\ out.failure_probability = PScale - out.success_probability
                /\ IF args.use_hybrid
                   THEN /\ locals.rule_probabilities[i] =
                               SpecRuleProbability(args.df[i])
                        /\ out.success_probability * WScale =
                               args.rule_weight * SpecRuleProbability(args.df[i])
                               + (WScale - args.rule_weight) * ml.ml_prob
                        /\ out.success_prediction = 1 <=>
                               out.success_probability * 2 >= PScale
                        /\ out.success_prediction \in {0, 1}
                   ELSE /\ out.success_probability = ml.ml_prob
                        /\ out.success_prediction = ml.ml_pred
                        /\ locals.rule_probabilities = <<>>

\* two rows with different rule and ML probabilities; the first blends to
\* exactly 0.5 and is predicted to succeed although the model said 0
C19_Witness ==
    /\ MakeCall /\ args.use_hybrid /\ args.rule_weight = 50
    /\ Len(args.df) = 2
    /\ args.df[1] # args.df[2]
    /\ args.answers[1].ml_prob = 0 /\ args.answers[1].ml_pred = 0
    /\ args.answers[2].ml_prob = 8000
    /\ ret.results[1].success_probability = 5000
    /\ ret.results[1].success_prediction = 1
    /\ ret.results[2].success_probability = 5850

\* the calls that label a dispatch
RecommendationCalls ==
    {"predict_dispatch", "predict_dispatches_batch",
     "DispatchPredictor.get_recommendation", "make_predictions"}

\* C20: POST /predict, the row function of POST /predict/batch,
\* DispatchPredictor.get_recommendation and get_recommendation of
\* make_predictions choose the same tier for every probability, duration
\* difference and expected duration, and the three that append a warning to
\* the label do so under the same condition.
C20_RecommendationsAgree ==
    call \in RecommendationCalls =>
        \A i \in DOMAIN Recommended :
            LET row == Recommended[i].row
                tier == TierOf(Recommended[i].rec.tier)
            IN  /\ tier = TierOf(predict_dispatch_recommendation(row).tier)
                /\ tier = TierOf(predict_dispatches_batch_get_recommendation(row).tier)
                /\ tier = TierOf(DispatchPredictor_get_recommendation(row).tier)
                /\ tier = TierOf(make_predictions_get_recommendation(row).tier)
                /\ predict_dispatch_recommendation(row).warning =
                       predict_dispatches_batch_get_recommendation(row).warning
                /\ predict_dispatch_recommendation(row).warning =
                       make_predictions_get_recommendation(row).warning
                /\ call # "DispatchPredictor.get_recommendation" =>
                       Recommended[i].rec.warning =
                           predict_dispatch_recommendation(row).warning

\* the report of the predictor for a probability of exactly 0.4 with a
\* duration above 30%: REVIEW, as the three other implementations say
C20_Witness ==
    /\ call = "DispatchPredictor.get_recommendation" /\ raised = "none"
    /\ ret.report.result.success_probability = 4000
    /\ ret.report.result.duration_difference = 19
    /\ TierOf(ret.report.recommendation.tier) = "REVIEW"
    /\ ret.report.recommendation.duration_warning = "WARNING"
    /\ make_predictions_get_recommendation(ret.report.result).tier = "REVIEW"
    /\ make_predictions_get_recommendation(ret.report.result).warning

\* the numbers a field takes that fall into an interval of its table
ValidValues(values) == {v \in values : FGe(v, 0)}

\* C21: with all other fields equal, the rule-based probability never
\* increases when the distance increases, never increases when the workload
\* ratio increases, and is never lower for skill_match = 1 than for
\* skill_match = 0.
C21_RuleProbabilityIsMonotone ==
    (RuleCall /\ RowInRange(args.row)) =>
        /\ "distance" \in DOMAIN args.row =>
              \A d2 \in ValidValues(DistanceValues) :
                  d2 >= args.row.distance =>
                      calculate_rule_based_probability(
                          [args.row EXCEPT !.distance = d2]) <= ret.value
        /\ "workload_ratio" \in DOMAIN args.row =>
              \A w2 \in ValidValues(WorkloadValues) :
                  w2 >= args.row.workload_ratio =>
                      calculate_rule_based_probability(
                          [args.row EXCEPT !.workload_ratio = w2]) <= ret.value
        /\ "skill_match" \in DOMAIN args.row =>
              calculate_rule_based_probability([args.row EXCEPT !.skill_match = 1])
                  >= calculate_rule_based_probability(
                         [args.row EXCEPT !.skill_match = 0])

\* an unclipped row at the top of a distance bucket and of a workload bucket:
\* one step further in either lowers the probability
C21_Witness ==
    /\ RuleCall /\ RowComplete(args.row)
    /\ args.row.distance = 49 /\ args.row.workload_ratio = 79
    /\ 0 < ret.value /\ ret.value < PScale
    /\ calculate_rule_based_probability([args.row EXCEPT !.distance = 50])
           < ret.value
    /\ calculate_rule_based_probability([args.row EXCEPT !.workload_ratio = 80])
           < ret.value

\* the overruns compared with the overrun of a call
OverrunRange == (0 - 61)..181

\* C22: the duration component never increases as the overrun increases, across
\* both branches, and has no jump at the branch boundary: the early/on-time
\* branch gives 30 at overrun 0 and the late branch falls short of 30 by a
\* third of a point per minute late, which vanishes as the overrun approaches 0
\* from above.
C22_DurationScoreIsMonotone ==
    GradeCall =>
        /\ \A o2 \in OverrunRange :
              o2 >= args.overrun =>
                  DurationScore(o2).score <= locals.duration_score
        /\ args.overrun = 0 =>
              (locals.duration_branch = "early"
                  /\ locals.duration_score = 30 * GScale)
        /\ (0 < args.overrun /\ args.overrun <= 90) =>
              /\ locals.duration_branch = "late"
              /\ 30 * GScale - locals.duration_score = (args.overrun * GScale) \div 3
        /\ args.overrun = 1 =>
              30 * GScale - locals.duration_score = GScale \div 3

\* one minute late: the late branch, a third of a point below the 30 of
\* overrun 0
C22_Witness ==
    /\ GradeCall /\ args.overrun = 1
    /\ locals.duration_branch = "late"
    /\ locals.duration_score = 30 * GScale - GScale \div 3
    /\ DurationScore(0).score = 30 * GScale

----------------------------------------------------------------------------
\* DispatchSuccessPredictor: the is_trained flag

C23_Step ==
    /\ (call = "idle" /\ call' \in GuardedMethods /\ ~trainer.is_trained) =>
            /\ raised' = "ValueError"
            /\ locals'.touched = {}
            /\ trainer' = trainer
            /\ files' = files
    /\ (call' = "DispatchSuccessPredictor" /\ raised' = "none") =>
            ~trainer'.is_trained
    /\ trainer.is_trained => trainer'.is_trained
    /\ (~trainer.is_trained /\ trainer'.is_trained) =>
            (call' \in {"train", "load"} /\ raised' = "none")
    /\ (call = "idle" /\ call' \in {"train", "load"} /\ raised' = "none") =>
            trainer'.is_trained

\* C23: a DispatchSuccessPredictor starts with is_trained False; while neither
\* train nor load has completed, predict, predict_proba, predict_success,
\* predict_duration and save raise ValueError, use no model and write no file;
\* is_trained becomes True exactly when train or load completes, and once True
\* it stays True.
C23_UntrainedIsRefused == (~trainer.is_trained) /\ [][C23_Step]_vars

C23_Witness ==
    /\ call = "predict_duration"
    /\ ~trainer.is_trained
    /\ trainer.success_model = "fitted"
    /\ raised = "ValueError"
    /\ locals.touched = {}
    /\ files = NoFiles

\* C24: whenever is_trained is True both the success model and the duration
\* model are fitted, so predict and predict_duration of a trained predictor
\* never run an unfitted duration model.
C24_TrainedMeansBothFitted ==
    /\ trainer.is_trained =>
            /\ trainer.success_model = "fitted"
            /\ trainer.duration_model = "fitted"
    /\ (call \in {"predict", "predict_duration"} /\ trainer.is_trained) =>
            raised # "NotFittedError"

----------------------------------------------------------------------------
\* The endpoints and the global predictor

Endpoints == {"health_check", "predict_dispatch", "predict_dispatches_batch"}

\* the exception raised inside the try block of the endpoint that has answered
InnerException ==
    CASE call = "predict_dispatch" ->
            IF args.fails THEN "Exception" ELSE "none"
      [] call = "predict_dispatches_batch" ->
            predict_batch(args.df, args.answers, args.fails).raised
      [] OTHER -> "none"

C25_Answer ==
    call \in Endpoints =>
        /\ predictor = "None" =>
              /\ raised = "HTTP 503"
              /\ locals.detail = "Models not loaded"
              /\ ~locals.predictor_called
              /\ ret = <<>>
        /\ predictor = "loaded" =>
              /\ raised \in {"none", "HTTP 500"}
              /\ raised = "HTTP 500" <=> InnerException # "none"
              /\ raised = "HTTP 500" => (locals.detail = InnerException /\ ret = <<>>)

C25_Step ==
    /\ predictor = "loaded" => predictor' = "loaded"
    /\ (call' = "startup_event" /\ raised' # "none") => predictor' = "None"
    /\ (call' = "startup_event" /\ raised' = "none") => predictor' = "loaded"

\* C25: while the global predictor is not loaded, /health, /predict and
\* /predict/batch answer 503 'Models not loaded' without calling the predictor;
\* once it is loaded, an exception raised during a prediction is answered with
\* status 500 and does not propagate; a failed startup load leaves the
\* predictor unloaded, and no step resets a loaded predictor to unloaded.
C25_UnloadedIs503AndFailureIs500 == []C25_Answer /\ [][C25_Step]_vars

\* POST /predict/batch of a loaded predictor: the KeyError of predict_batch is
\* answered with 500
C25_Witness ==
    /\ call = "predict_dispatches_batch"
    /\ predictor = "loaded"
    /\ Len(args.df.rows) = 2
    /\ locals.predictor_called
    /\ locals.detail = "KeyError"
    /\ raised = "HTTP 500"

----------------------------------------------------------------------------
\* The load functions and their connection

C26_Closed ==
    /\ loader.pc \in {"idle", "returned", "raised"} =>
          /\ loader.connection # "open"
          /\ loader.closed = loader.opened
    /\ (loader.pc = "raised" /\ loader.connection = "None") =>
          loader.pending # "none"
    /\ loader.opened - loader.closed \in {0, 1}

C26_Step ==
    /\ (loader.pc = "connect" /\ loader'.connection # "open") =>
          /\ loader'.pc = "raised"
          /\ loader'.pending # "none"
          /\ loader'.connection = "None"
          /\ loader'.opened = loader.opened
    /\ (loader.pc = "query" /\ loader'.pc # "query") =>
          loader'.pc = "disconnect"
    /\ (loader.pc = "disconnect" /\ loader.connection = "None") =>
          /\ loader'.connection = "None"
          /\ loader'.opened = loader.opened
          /\ loader'.closed = loader.closed
          /\ loader'.pending = loader.pending
    /\ (loader.pc = "disconnect" /\ loader.fn = "DataLoader.disconnect") =>
          loader'.pc = "returned"

\* C26: in load_data, load_current_dispatches and
\* load_unassigned_or_all_dispatches the connection opened by connect is closed
\* by disconnect before the function returns or raises, whether the queries
\* succeed or fail; a failed connect raises to the caller at once and leaves
\* no open connection; disconnect on a loader that never connected changes
\* nothing and returns.
C26_ConnectionClosedOnEveryExit == []C26_Closed /\ [][C26_Step]_vars

\* load_unassigned_or_all_dispatches has raised the exception of its second
\* query, with its connection closed
C26_Witness ==
    /\ loader.fn = "load_unassigned_or_all_dispatches"
    /\ loader.pc = "raised"
    /\ loader.pending = "Exception"
    /\ loader.queries = 1
    /\ loader.connection = "closed"
    /\ loader.opened = 2
    /\ loader.closed = 2

\* C27: predict_batch raises ValueError naming exactly the absent columns
\* whenever one of the seven required columns is missing, before any
\* preprocessing or model call and without changing the input; when all seven
\* are present it does not fail for a missing column, and it derives
\* skill_match as (required_skill == technician_skill) only if that column is
\* absent.
C27_MissingColumnsNamed ==
    call = "DispatchPredictor.predict_batch" =>
        LET absent == Range(required_cols) \ args.dispatches.columns
            before == args.dispatches.rows[1]
            after == locals.dispatches.rows[1]
        IN  /\ absent # {} =>
                  /\ raised = "ValueError"
                  /\ Range(locals.names) = absent
                  /\ Len(locals.names) = Cardinality(absent)
                  /\ ~locals.preprocessed
                  /\ locals.dispatches = args.dispatches
            /\ absent = {} =>
                  /\ raised \notin {"ValueError", "KeyError"}
                  /\ after.skill_match =
                        IF "skill_match" \in args.dispatches.columns
                        THEN before.skill_match
                        ELSE IF before.required_skill = before.technician_skill
                             THEN 1 ELSE 0

============================================================================
